---- MODULE Spec2Model ----
(***************************************************************************)
(* A model of mint's mod store (src/src/providers): the provider registry  *)
(* and get_provider, the dependency-closure loop of resolve_mods, the      *)
(* windowed fetch schedulers, the caching providers' fetch_mod, and the    *)
(* content-addressed blob store.                                           *)
(*                                                                         *)
(* Locators (the url of a ModSpecification or of a ModResolution) are the  *)
(* elements of DOMAIN matches.  What the outside world answers (which      *)
(* descriptor's predicate accepts a locator, what a backend answers to     *)
(* resolve_mod) is decided once per locator, at the latest when the        *)
(* program first asks, and never changes afterwards.                       *)
(***************************************************************************)
EXTENDS Integers, Sequences, FiniteSets, TLC

VARIABLES
    \* ---- the outside world
    registry,           \* the descriptors in registration order (inventory::iter)
    matches,            \* matches[l]: the descriptors whose can_provide accepts locator l
    resp,               \* resp[l]: what the owning backend answers to resolve_mod(l)
    modfile,            \* modfile[l]: the modfile id in a mod.io url l, 0 when it has none
    remote,             \* what a server may send back to a download request
    \* ---- ModStore
    providers,          \* ids of the descriptors that have a constructed provider
    gp,                 \* the last get_provider call: its url, what it returned, and
                        \* (history) the providers the store had at that moment
    cache,              \* the ProviderCache document: provider id -> section
    fs,                 \* the blobs directory: names -> inode, inode -> bytes
    \* ---- the calls of fetch_mods / fetch_mods_ordered
    calls,              \* per caller: the input, one task per input position, the Vec
                        \* try_collect has gathered, the result
    \* ---- threads that use a BlobCache directly
    writers,            \* per writer: its position in BlobCache::write and what its
                        \* last finished write returned
    reader,             \* a reader: get_path, then a read of the path
    \* ---- one call of resolve_mods
    mods,               \* the caller's input list
    to_resolve,         \* HashSet<ModSpecification>
    mods_map,           \* HashMap<ModSpecification, ModInfo>
    precise_mod_specs,  \* HashSet<ModSpecification>
    iter,               \* specs of this round whose future the stream has not yet produced
    inflight,           \* original spec -> working spec, of the futures in the buffer
    collected,          \* the Vec try_collect has gathered so far, in completion order
    rpc,                \* "loop" | "round" | "done" | "err"
    rresult,            \* what resolve_mods returned
    failure,            \* history: the error of the first resolution step that failed
    \* ---- the lock of the provider cache and the futures that take it
    lock,               \* RwLock<Cache>: the futures holding a read guard, those
                        \* holding the write guard
    futs,               \* per future: its steps, its position, whether it is suspended
    \* ---- one call of update_cache
    refresh,            \* the providers to visit, those in flight, those refreshed
    \* ---- the last synchronous call made on the store, a provider or the cache
    probe

worldVars   == <<registry, matches, resp, modfile, remote>>
storeVars   == <<providers, gp>>
diskVars    == <<cache, fs>>
fetchVars   == <<calls>>
blobVars    == <<writers, reader>>
resolveVars == <<mods, to_resolve, mods_map, precise_mod_specs, iter, inflight,
                 collected, rpc, rresult, failure>>
lockVars    == <<lock, futs>>
otherVars   == <<lockVars, refresh, probe>>
vars        == <<worldVars, storeVars, diskVars, fetchVars, blobVars, resolveVars, otherVars>>

(***************************************************************************)
(* Bounds of the model and constants of the program.                       *)
(***************************************************************************)
NSpecs   == 3       \* locators of a resolution world
MaxInput == 2       \* length of the list handed to resolve_mods
NUrls    == 2       \* locators of a registry world
MaxFetch == 2       \* length of the list handed to fetch_mods / fetch_mods_ordered
BlobLen  == 2       \* bytes of a blob
Width    == 5       \* buffer_unordered(5) / buffered(5)

FactoryIds == {"file", "http", "modio"}

None == [kind |-> "None"]

\* the answer of the world for a locator nobody has asked about yet
Unknown == [kind |-> "Unknown"]

Range(s) == {s[i] : i \in DOMAIN s}

Min(S) == CHOOSE x \in S : \A y \in S : x <= y

Perms(S) == {p \in [1..Cardinality(S) -> S] : \A i, j \in DOMAIN p : p[i] = p[j] => i = j}

(***************************************************************************)
(* The registry.  A descriptor is constructed from free-form parameters;   *)
(* modio declares the required parameter "oauth", file and http none.      *)
(***************************************************************************)
RequiredParams(f) == IF f = "modio" THEN {"oauth"} ELSE {}

\* (provider_factory.new)(parameters): modio fails without its token.
Constructs(f, params) == RequiredParams(f) \subseteq params

\* http accepts a url whose host is not a mod.io host, modio only urls on
\* https://mod.io/g/drg/m/: no locator is accepted by both.  file accepts
\* whatever names an existing path.
PossibleMatches == {m \in SUBSET FactoryIds : ~({"http", "modio"} \subseteq m)}

(***************************************************************************)
(* ModStore::get_provider.                                                 *)
(***************************************************************************)
GetProviderFallThrough(url) ==
    LET hits == {i \in DOMAIN registry :
                    registry[i] \in matches[url] /\ registry[i] \in providers}
    IN  IF hits = {}
        THEN [kind |-> "NotFound", url |-> url, factory |-> "none"]
        ELSE [kind |-> "Ok", url |-> url, factory |-> registry[Min(hits)]]

GetProviderDefault(url) ==
    LET hits == {i \in DOMAIN registry : registry[i] \in matches[url]}
    IN  IF hits = {}
        THEN [kind |-> "NoProvider", url |-> url, factory |-> registry[1]]
        ELSE IF registry[Min(hits)] \in providers
             THEN [kind |-> "Ok", url |-> url, factory |-> registry[Min(hits)]]
             ELSE [kind |-> "NoProvider", url |-> url, factory |-> registry[Min(hits)]]

\* find the first descriptor whose predicate matches; no such descriptor is
\* an anyhow error with the context "Could not find mod provider for <url>"
\* (kind "NotFound" here); a descriptor without a provider is
\* IntegrationError::NoProvider { url, factory }.
GetProvider(url) ==
    LET hits == {i \in DOMAIN registry : registry[i] \in matches[url]}
    IN  IF hits = {}
        THEN [kind |-> "NotFound", url |-> url, factory |-> "none"]
        ELSE IF registry[Min(hits)] \in providers
             THEN [kind |-> "Ok", url |-> url, factory |-> registry[Min(hits)]]
             ELSE [kind |-> "NoProvider", url |-> url, factory |-> registry[Min(hits)]]

\* a caller asks for the provider of a locator
CallGetProvider(url) ==
    /\ gp' = [url |-> url, res |-> GetProvider(url), had |-> providers]
    /\ UNCHANGED <<worldVars, providers, diskVars, fetchVars, blobVars, resolveVars, otherVars>>

\* ModStore::add_provider: construct, then insert under the descriptor's id
AddProvider(f, params) ==
    /\ Constructs(f, params)
    /\ providers' = providers \cup {f}
    /\ UNCHANGED <<worldVars, gp, diskVars, fetchVars, blobVars, resolveVars, otherVars>>

(***************************************************************************)
(* ModStore::new: a provider for every descriptor whose required           *)
(* parameters are all present.                                             *)
(***************************************************************************)
NewProviders(parameters) ==
    {f \in FactoryIds : RequiredParams(f) \subseteq parameters[f] /\ Constructs(f, parameters[f])}

(***************************************************************************)
(* The blob store.  A blob is a byte sequence; the directory maps a file   *)
(* name to an inode and an inode to the bytes it holds.  A name is the     *)
(* hex digest of a blob, or a dot followed by it (the temporary file).     *)
(***************************************************************************)
Bytes == {0, 1}

Blobs == UNION {[1..n -> Bytes] : n \in 0..BlobLen}

\* hex::encode(Sha256::digest(blob)): a digest without collisions, here the
\* number whose binary digits are a 1 followed by the bytes
RECURSIVE Sha256Hex(_)
Sha256Hex(blob) ==
    IF Len(blob) = 0 THEN 1
    ELSE 2 * Sha256Hex(SubSeq(blob, 1, Len(blob) - 1)) + blob[Len(blob)]

\* self.path.join(format!(".{hash}"))
TmpName(hash) == [dot |-> TRUE, hash |-> hash]

\* self.path.join(&hash)
BlobName(hash) == [dot |-> FALSE, hash |-> hash]

BlobPath(hash) == [dir |-> "blobs", name |-> BlobName(hash)]

\* PathBuf::from(url) of the file provider
LocalPath(url) == [dir |-> "local", name |-> url]

MapInsert(m, k, v) == [x \in DOMAIN m \cup {k} |-> IF x = k THEN v ELSE m[x]]

MapRemove(m, k) == [x \in DOMAIN m \ {k} |-> m[x]]

\* fs::create_dir of BlobCache::new
EmptyDir == [dir |-> << >>, data |-> << >>]

\* File::create inside fs::write: open for writing, create the file when
\* the name is free, truncate the file the name refers to otherwise
FsCreate(f, name) ==
    IF name \in DOMAIN f.dir
    THEN [fs |-> [f EXCEPT !.data[f.dir[name]] = << >>], ino |-> f.dir[name]]
    ELSE LET i == Min((1..(Cardinality(DOMAIN f.data) + 1)) \ DOMAIN f.data)
         IN  [fs  |-> [dir |-> MapInsert(f.dir, name, i), data |-> MapInsert(f.data, i, << >>)],
              ino |-> i]

\* one write(2) of write_all on an open file: the bytes land behind offset
\* `off`; bytes of a hole below them read as zero
FsWriteAt(f, ino, off, bytes) ==
    LET old == f.data[ino]
        n   == IF Len(old) > off + Len(bytes) THEN Len(old) ELSE off + Len(bytes)
    IN  [f EXCEPT !.data[ino] =
            [k \in 1..n |-> IF k > off /\ k <= off + Len(bytes) THEN bytes[k - off]
                            ELSE IF k <= Len(old) THEN old[k] ELSE 0]]

\* a rename that leaves the old name in place (link without unlink)
FsRenameKeepsSource(f, from, to) ==
    IF from \notin DOMAIN f.dir
    THEN [ok |-> FALSE, fs |-> f]
    ELSE [ok |-> TRUE, fs |-> [f EXCEPT !.dir = MapInsert(f.dir, to, f.dir[from])]]

\* fs::rename: atomically gives the file the name `to`, replacing what
\* `to` named; fails when nothing is named `from`
FsRename(f, from, to) ==
    IF from \notin DOMAIN f.dir
    THEN [ok |-> FALSE, fs |-> f]
    ELSE [ok |-> TRUE,
          fs |-> [f EXCEPT !.dir = MapInsert(MapRemove(f.dir, from), to, f.dir[from])]]

\* an inode lives while a name or an open descriptor refers to it
FsCollect(f, fds) ==
    [f EXCEPT !.data = [i \in {j \in DOMAIN f.data :
                                 j \in fds \/ \E n \in DOMAIN f.dir : f.dir[n] = j}
                          |-> f.data[i]]]

\* BlobCache::write run without another thread in between
BlobWrite(f, blob) ==
    LET hash == Sha256Hex(blob)
        c    == FsCreate(f, TmpName(hash))
        w    == FsWriteAt(c.fs, c.ino, 0, blob)
        r    == FsRename(w, TmpName(hash), BlobName(hash))
    IN  [fs |-> FsCollect(r.fs, {}), ref |-> hash]

\* a lookup that is also satisfied by the temporary file of a write
GetPathOrTmp(f, ref) ==
    IF BlobName(ref) \in DOMAIN f.dir \/ TmpName(ref) \in DOMAIN f.dir
    THEN [kind |-> "Some", path |-> BlobPath(ref)]
    ELSE None

\* BlobCache::get_path: path.exists().then_some(path)
GetPath(f, ref) ==
    IF BlobName(ref) \in DOMAIN f.dir THEN [kind |-> "Some", path |-> BlobPath(ref)] ELSE None

(***************************************************************************)
(* The provider cache: one document, one section per provider id.  The     *)
(* http section is url_blobs (url -> BlobRef); of the modio section only   *)
(* modfile_blobs (modfile id -> BlobRef) takes part in a fetch.            *)
(***************************************************************************)
CachingProviders == {"http", "modio"}

\* HttpProviderCache::default() / ModioCache::default()
DefaultSection(id) ==
    IF id = "http" THEN [url_blobs |-> << >>] ELSE [modfile_blobs |-> << >>]

\* the typed read: the section, or none when the document has none
CacheGet(doc, id) == doc[id]

\* a mutable access that hands out a document holding that section only
CacheGetMutAlone(doc, id) ==
    [x \in DOMAIN doc |-> IF x # id THEN None
                          ELSE IF doc[x] = None THEN DefaultSection(x) ELSE doc[x]]

\* the typed mutable access: the section default-constructed when absent
CacheGetMut(doc, id) ==
    IF doc[id] = None THEN [doc EXCEPT ![id] = DefaultSection(id)] ELSE doc

\* ModStore::new in a fresh cache directory
NewStore ==
    /\ cache = [id \in CachingProviders |-> None]
    /\ fs = EmptyDir

CallIds == {"A", "B"}

IdleCall == [pc |-> "idle", kind |-> "fetch_mods", mods |-> << >>, update |-> FALSE,
             tasks |-> << >>, out |-> << >>, res |-> None, requests |-> 0,
             overtaken |-> FALSE, failed |-> {}]

IdleFetch == calls = [c \in CallIds |-> IdleCall]

WriterIds == {"w1", "w2"}

IdleBlob ==
    /\ writers = [w \in WriterIds |-> [pc |-> "idle", blob |-> << >>, fd |-> 0, off |-> 0,
                                       res |-> None]]
    /\ reader = [pc |-> "idle", ref |-> 0, data |-> None]

IdleResolve ==
    /\ mods = << >>
    /\ to_resolve = {}
    /\ mods_map = << >>
    /\ precise_mod_specs = {}
    /\ iter = {}
    /\ inflight = << >>
    /\ collected = << >>
    /\ rpc = "done"
    /\ rresult = [kind |-> "Ok", map |-> << >>]
    /\ failure = None

FutIds == {"f1", "f2"}

IdleLock ==
    /\ lock = [readers |-> {}, writer |-> {}]
    /\ futs = [t \in FutIds |-> [prog |-> << >>, pc |-> 1, suspended |-> FALSE]]

IdleRefresh == refresh = [pc |-> "idle", snapshot |-> {}, todo |-> {}, running |-> {},
                          refreshed |-> {}, res |-> None]

IdleOther ==
    /\ IdleLock
    /\ IdleRefresh
    /\ probe = None

InitProvider ==
    /\ IdleOther
    /\ registry \in Perms(FactoryIds)
    /\ matches \in [1..NUrls -> PossibleMatches]
    /\ resp = [l \in 1..NUrls |-> None]
    /\ modfile = [l \in 1..NUrls |-> 0]
    /\ remote = {}
    /\ NewStore
    /\ IdleFetch
    /\ IdleBlob
    /\ providers \in {NewProviders(parameters) : parameters \in [FactoryIds -> SUBSET {"oauth"}]}
    /\ gp = None
    /\ IdleResolve

NextProvider ==
    \/ \E url \in DOMAIN matches : CallGetProvider(url)
    \/ \E f \in FactoryIds, params \in SUBSET {"oauth"} : AddProvider(f, params)

SpecProvider == InitProvider /\ [][NextProvider]_vars

(***************************************************************************)
(* The window of buffer_unordered(n) / buffered(n): the stream takes the   *)
(* next future from its iterator while the buffer holds fewer than n.      *)
(***************************************************************************)
WindowUnbounded(n) == TRUE

WindowHasRoom(n) == n < Width

(***************************************************************************)
(* Resolution.  A ModInfo is [spec, deps]: the spec the backend reports    *)
(* and its suggested_dependencies (a Vec that the loop only iterates to    *)
(* insert into a set, so a set here).  A ModResponse is Resolve(ModInfo)   *)
(* or Redirect(spec); a backend may also fail.                             *)
(***************************************************************************)
\* A ModInfo suggests no dependency or one: several dependencies of one mod
\* enter to_resolve the way the dependencies of several mods do.
DepSets(S) == {{}} \cup {{d} : d \in S}

Responses(S) ==
    {[kind |-> "Resolve", spec |-> s, deps |-> d] : s \in S, d \in DepSets(S)}
        \cup {[kind |-> "Redirect", spec |-> s, deps |-> {}] : s \in S}
        \cup {[kind |-> "Err", spec |-> 0, deps |-> {}]}

\* HttpProvider::resolve_mod: terminal, the spec itself, no dependencies
HttpResolve(spec) == [kind |-> "Resolve", spec |-> spec, deps |-> {}]

\* one turn of the loop of ModStore::resolve_mod on the working spec:
\* get_provider(&spec.url)?.resolve_mod(&spec, ..).await?
ProviderAnswer(spec) ==
    LET p == GetProvider(spec)
    IN  IF p.kind # "Ok" THEN [kind |-> "Fail", err |-> p]
        ELSE IF resp[spec].kind = "Err"
             THEN [kind |-> "Fail",
                   err |-> [kind |-> "ProviderError", url |-> spec, factory |-> p.factory]]
             ELSE resp[spec]

ResolveModTurnKeyedByTarget(original_spec, spec) ==
    LET a == ProviderAnswer(spec)
    IN  CASE a.kind = "Fail"     -> [kind |-> "Err", err |-> a.err]
          [] a.kind = "Resolve"  -> [kind |-> "Ok", u |-> spec,
                                     info |-> [spec |-> a.spec, deps |-> a.deps]]
          [] a.kind = "Redirect" -> [kind |-> "Pending", spec |-> a.spec]

\* ModStore::resolve_mod, one turn: the future's output, or the new working spec
ResolveModTurn(original_spec, spec) ==
    LET a == ProviderAnswer(spec)
    IN  CASE a.kind = "Fail"     -> [kind |-> "Err", err |-> a.err]
          [] a.kind = "Resolve"  -> [kind |-> "Ok", u |-> original_spec,
                                     info |-> [spec |-> a.spec, deps |-> a.deps]]
          [] a.kind = "Redirect" -> [kind |-> "Pending", spec |-> a.spec]

AllDeps(m) == UNION {m[k].deps : k \in DOMAIN m}

ForBodyDedupByKey(st, u, m) ==
    LET map == MapInsert(st.mods_map, u, m)
    IN  [precise_mod_specs |-> st.precise_mod_specs \cup {m.spec},
         mods_map          |-> map,
         to_resolve        |-> AllDeps(map) \ DOMAIN map]

\* the body of the for loop over one round's results: record the precise
\* spec, store under the original spec, then clear to_resolve and rebuild it
\* from the dependencies of everything in mods_map
ForBody(st, u, m) ==
    LET precise == st.precise_mod_specs \cup {m.spec}
        map     == MapInsert(st.mods_map, u, m)
    IN  [precise_mod_specs |-> precise,
         mods_map          |-> map,
         to_resolve        |-> {d \in AllDeps(map) : d \notin precise}]

RECURSIVE ForLoop(_, _)
ForLoop(results, st) ==
    IF results = << >> THEN st
    ELSE ForLoop(Tail(results), ForBody(st, Head(results).u, Head(results).info))

TryCollectSkipErrors(acc, item) ==
    [kind |-> "Continue", acc |-> IF item.kind = "Ok" THEN Append(acc, item) ELSE acc]

\* try_collect::<Vec<_>>: gather the Ok items, end with the first Err
TryCollect(acc, item) ==
    IF item.kind = "Ok"
    THEN [kind |-> "Continue", acc |-> Append(acc, item)]
    ELSE [kind |-> "Return", err |-> item.err]

\* while !to_resolve.is_empty(): start a round, or return Ok(mods_map)
WhileHead ==
    /\ rpc = "loop"
    /\ IF to_resolve = {}
       THEN /\ rpc' = "done"
            /\ rresult' = [kind |-> "Ok", map |-> mods_map]
            /\ UNCHANGED <<iter, inflight, collected>>
       ELSE /\ rpc' = "round"
            /\ iter' = to_resolve
            /\ inflight' = << >>
            /\ collected' = << >>
            /\ UNCHANGED rresult
    /\ UNCHANGED <<worldVars, storeVars, diskVars, fetchVars, blobVars, otherVars,
                   mods, to_resolve, mods_map, precise_mod_specs, failure>>

\* an iterator that hands out a spec and keeps it
StartResolveAgain(u) ==
    /\ rpc = "round"
    /\ u \in iter
    /\ WindowHasRoom(Cardinality(DOMAIN inflight))
    /\ inflight' = MapInsert(inflight, u, u)
    /\ UNCHANGED <<worldVars, storeVars, diskVars, fetchVars, blobVars, otherVars,
                   mods, to_resolve, mods_map, precise_mod_specs,
                   iter, collected, rpc, rresult, failure>>

\* buffer_unordered takes the next future from the iterator over to_resolve
\* (a HashSet: any order) while fewer than Width are in the buffer
StartResolve(u) ==
    /\ rpc = "round"
    /\ u \in iter
    /\ WindowHasRoom(Cardinality(DOMAIN inflight))
    /\ iter' = iter \ {u}
    /\ inflight' = MapInsert(inflight, u, u)
    /\ UNCHANGED <<worldVars, storeVars, diskVars, fetchVars, blobVars, otherVars,
                   mods, to_resolve, mods_map, precise_mod_specs,
                   collected, rpc, rresult, failure>>

\* a buffered future takes one turn of its redirect loop; the buffer is
\* polled only once it is full or the iterator is exhausted.  An Err item
\* ends try_collect, and the `?` of resolve_mods returns it; the stream and
\* the futures still in it are dropped.
PollResolve(u) ==
    /\ rpc = "round"
    /\ u \in DOMAIN inflight
    /\ ~WindowHasRoom(Cardinality(DOMAIN inflight)) \/ iter = {}
    /\ resp[inflight[u]] # Unknown
    /\ LET out == ResolveModTurn(u, inflight[u])
       IN  IF out.kind = "Pending"
           THEN /\ inflight' = [inflight EXCEPT ![u] = out.spec]
                /\ UNCHANGED <<iter, collected, rpc, rresult, failure>>
           ELSE LET c == TryCollect(collected, out)
                IN  /\ failure' = IF out.kind = "Err" /\ failure = None
                                  THEN out.err ELSE failure
                    /\ IF c.kind = "Continue"
                       THEN /\ collected' = c.acc
                            /\ inflight' = MapRemove(inflight, u)
                            /\ UNCHANGED <<iter, rpc, rresult>>
                       ELSE /\ rpc' = "err"
                            /\ rresult' = [kind |-> "Err", err |-> c.err]
                            /\ iter' = {}
                            /\ inflight' = << >>
                            /\ collected' = << >>
    /\ UNCHANGED <<worldVars, storeVars, diskVars, fetchVars, blobVars, otherVars,
                   mods, to_resolve, mods_map, precise_mod_specs>>

\* the stream has ended: the for loop runs over the collected Vec
EndRound ==
    /\ rpc = "round"
    /\ iter = {}
    /\ DOMAIN inflight = {}
    /\ LET st == ForLoop(collected, [precise_mod_specs |-> precise_mod_specs,
                                     mods_map |-> mods_map,
                                     to_resolve |-> to_resolve])
       IN  /\ precise_mod_specs' = st.precise_mod_specs
           /\ mods_map' = st.mods_map
           /\ to_resolve' = st.to_resolve
    /\ collected' = << >>
    /\ rpc' = "loop"
    /\ UNCHANGED <<worldVars, storeVars, diskVars, fetchVars, blobVars, otherVars,
                   mods, iter, inflight, rresult, failure>>

\* Input lists up to renaming of the locators: the first occurrences are
\* 1, 2, ... in this order (what the world answers is closed under renaming).
InputLists(S, n) ==
    {s \in UNION {[1..k -> S] : k \in 0..n} :
        \A i \in DOMAIN s : \A x \in 1..(s[i] - 1) : \E j \in 1..(i - 1) : s[j] = x}

\* the state on entry to resolve_mods(list)
EnterResolve(list) ==
    /\ mods = list
    /\ to_resolve = Range(list)
    /\ mods_map = << >>
    /\ precise_mod_specs = {}
    /\ iter = {}
    /\ inflight = << >>
    /\ collected = << >>
    /\ rpc = "loop"
    /\ rresult = None
    /\ failure = None

\* What the world may answer for locator l: it is claimed by no descriptor,
\* by http, or by modio (configured or not); the backend behind a configured
\* modio descriptor is any implementation of ModProvider::resolve_mod.
WorldEntries(l) ==
    {[m |-> {}, r |-> None], [m |-> {"http"}, r |-> HttpResolve(l)]}
      \cup {[m |-> {"modio"}, r |-> x] :
              x \in IF "modio" \in providers THEN Responses(DOMAIN matches) ELSE {None}}

\* the world decides about locator l when a buffered future is about to ask
Discover(l) ==
    /\ rpc = "round"
    /\ resp[l] = Unknown
    /\ \E u \in DOMAIN inflight : inflight[u] = l
    /\ ~WindowHasRoom(Cardinality(DOMAIN inflight)) \/ iter = {}
    /\ \E e \in WorldEntries(l) :
          /\ matches' = [matches EXCEPT ![l] = e.m]
          /\ resp' = [resp EXCEPT ![l] = e.r]
    /\ UNCHANGED <<registry, modfile, remote, storeVars, diskVars, fetchVars, blobVars,
                   resolveVars, otherVars>>

InitResolve ==
    /\ IdleOther
    /\ registry = <<"file", "http", "modio">>
    /\ providers \in {NewProviders(parameters) : parameters \in [FactoryIds -> SUBSET {"oauth"}]}
    /\ matches = [l \in 1..NSpecs |-> {}]
    /\ resp = [l \in 1..NSpecs |-> Unknown]
    /\ modfile = [l \in 1..NSpecs |-> 0]
    /\ remote = {}
    /\ NewStore
    /\ IdleFetch
    /\ IdleBlob
    /\ gp = None
    /\ \E list \in InputLists(1..NSpecs, MaxInput) : EnterResolve(list)

NextResolve ==
    \/ WhileHead
    \/ \E u \in DOMAIN matches : StartResolve(u)
    \/ \E l \in DOMAIN matches : Discover(l)
    \/ \E u \in DOMAIN matches : PollResolve(u)
    \/ EndRound

SpecResolve == InitResolve /\ [][NextResolve]_vars

\* the runtime keeps polling a call that can take a step
FairSpecResolve == SpecResolve /\ WF_vars(NextResolve)

(***************************************************************************)
(* Fetching.  The locators of a fetch world: a local path, an http url, a  *)
(* mod.io url with a modfile id, a mod.io url without one, and a string    *)
(* no descriptor accepts.                                                  *)
(***************************************************************************)
FetchWorld ==
    << [m |-> {"file"},  mf |-> 0],
       [m |-> {"http"},  mf |-> 0],
       [m |-> {"modio"}, mf |-> 1],
       [m |-> {"modio"}, mf |-> 0],
       [m |-> {},        mf |-> 0] >>

\* the bodies servers send
Payloads == {[i \in 1..BlobLen |-> b] : b \in Bytes}

ContentTypes == {"none", "application/zip", "application/octet-stream", "text/html"}

\* what may come back for a download request: no response at all, an error
\* status, or a success with or without a content-type header
AllAnswers ==
    {[status |-> s, ctype |-> "none", bytes |-> << >>] : s \in {"unreachable", "error"}}
      \cup {[status |-> "ok", ctype |-> t, bytes |-> b] : t \in ContentTypes, b \in Payloads}

Ok(path) == [kind |-> "Ok", path |-> path]

Err(kind, url) == [kind |-> "Err", err |-> [kind |-> kind, url |-> url]]

Ready(item) == [kind |-> "Ready", item |-> item]

Pending == [kind |-> "Pending"]

HttpCachedPathInverted(url, update, doc, f) ==
    IF ~update THEN None
    ELSE IF CacheGet(doc, "http") = None THEN None
    ELSE IF url \notin DOMAIN CacheGet(doc, "http").url_blobs THEN None
    ELSE GetPath(f, CacheGet(doc, "http").url_blobs[url])

\* http: if update { None } else { cache.get(..).and_then(url_blobs.get(url))
\*                                      .and_then(blob_cache.get_path) }
HttpCachedPath(url, update, doc, f) ==
    IF update THEN None
    ELSE IF CacheGet(doc, "http") = None THEN None
    ELSE IF url \notin DOMAIN CacheGet(doc, "http").url_blobs THEN None
    ELSE GetPath(f, CacheGet(doc, "http").url_blobs[url])

\* modio: the same lookup under the modfile id; _update is not read
ModioCachedPath(modfile_id, doc, f) ==
    IF CacheGet(doc, "modio") = None THEN None
    ELSE IF modfile_id \notin DOMAIN CacheGet(doc, "modio").modfile_blobs THEN None
    ELSE GetPath(f, CacheGet(doc, "modio").modfile_blobs[modfile_id])

\* ModStore::fetch_mod up to its first suspension: get_provider, then the
\* provider's fetch_mod until it returns or sends a request
FetchModStart(url, update) ==
    LET p == GetProvider(url)
    IN  IF p.kind # "Ok" THEN Ready([kind |-> "Err", err |-> p])
        ELSE IF p.factory = "file" THEN Ready(Ok(LocalPath(url)))
        ELSE IF p.factory = "http"
        THEN LET c == HttpCachedPath(url, update, cache, fs)
             IN  IF c # None THEN Ready(Ok(c.path)) ELSE Pending
        ELSE IF modfile[url] = 0 THEN Ready(Err("NotFullySpecified", url))
        ELSE LET c == ModioCachedPath(modfile[url], cache, fs)
             IN  IF c # None THEN Ready(Ok(c.path)) ELSE Pending

\* blob_cache.write(&data), blob_cache.get_path(&blob).unwrap(), and the
\* insert into the provider's section under the write lock
StoreBlob(id, key, bytes) ==
    LET w   == BlobWrite(fs, bytes)
        doc == CacheGetMut(cache, id)
    IN  [item  |-> Ok(GetPath(w.fs, w.ref).path),
         fs    |-> w.fs,
         cache |-> IF id = "http"
                   THEN [doc EXCEPT !.http.url_blobs = MapInsert(@, key, w.ref)]
                   ELSE [doc EXCEPT !.modio.modfile_blobs = MapInsert(@, key, w.ref)]]

\* a fetch that stores the body before it looks at the content type
FetchModFinishStoreFirst(url, a) ==
    LET unchanged(item) == [item |-> item, fs |-> fs, cache |-> cache]
    IN  IF a.status = "unreachable" THEN unchanged(Err("Transport", url))
        ELSE IF a.status = "error" THEN unchanged(Err("Status", url))
        ELSE IF GetProvider(url).factory = "http"
        THEN IF a.ctype \notin {"none", "application/zip", "application/octet-stream"}
             THEN [StoreBlob("http", url, a.bytes) EXCEPT !.item = Err("ContentType", url)]
             ELSE StoreBlob("http", url, a.bytes)
        ELSE StoreBlob("modio", modfile[url], a.bytes)

\* the provider's fetch_mod from the arrival of answer a.  (The two awaits
\* of a download, the response and its body, are one suspension here.)
FetchModFinish(url, a) ==
    LET unchanged(item) == [item |-> item, fs |-> fs, cache |-> cache]
    IN  IF a.status = "unreachable" THEN unchanged(Err("Transport", url))
        ELSE IF a.status = "error" THEN unchanged(Err("Status", url))
        ELSE IF GetProvider(url).factory = "http"
        THEN IF a.ctype \notin {"none", "application/zip", "application/octet-stream"}
             THEN unchanged(Err("ContentType", url))
             ELSE StoreBlob("http", url, a.bytes)
        ELSE StoreBlob("modio", modfile[url], a.bytes)

(***************************************************************************)
(* One call of fetch_mods (buffer_unordered) or fetch_mods_ordered         *)
(* (buffered).  Task i is the future of input position i:                  *)
(*   new      the stream has not taken it from the iterator                *)
(*   pushed   in the buffer, not polled yet                                *)
(*   net      suspended on the network                                     *)
(*   ready    its output waits in the buffer for its turn (buffered only)  *)
(*   emitted  its output went to try_collect                               *)
(*   dropped  the stream was dropped                                       *)
(***************************************************************************)
FetchKinds == {"fetch_mods", "fetch_mods_ordered"}

NewTask == [st |-> "new", item |-> None]

TasksIn(call, states) == {i \in DOMAIN call.tasks : call.tasks[i].st \in states}

\* the futures that have started and not returned
InFlight(call) == TasksIn(call, {"pushed", "net"})

\* a buffer that counts the running futures only
WindowLenRunning(call) == Cardinality(TasksIn(call, {"pushed", "net"}))

\* FuturesUnordered::len / FuturesOrdered::len: the latter counts its
\* queued outputs
WindowLen(call) == Cardinality(TasksIn(call, {"pushed", "net", "ready"}))

\* the buffer is polled once it is full or the iterator is exhausted
Filled(call) == ~WindowHasRoom(WindowLen(call)) \/ TasksIn(call, {"new"}) = {}

MayDeliverAsCompleted(kind, out, i) == TRUE

MayDeliverInInputOrder(kind, out, i) == i = Len(out) + 1

\* buffer_unordered yields an output when its future completes; buffered
\* yields the output with the next outgoing index, and queues the others
MayDeliver(kind, out, i) == kind = "fetch_mods" \/ i = Len(out) + 1

Deliverable(call) == {i \in TasksIn(call, {"ready"}) : MayDeliver(call.kind, call.out, i)}

\* the stream yields the output of task i; an Err ends try_collect, the
\* stream and the futures in it are dropped
Deliver(call, i, item) ==
    LET c == TryCollect(call.out, item)
    IN  IF c.kind = "Continue"
        THEN [call EXCEPT !.tasks[i] = [st |-> "emitted", item |-> item], !.out = c.acc]
        ELSE [call EXCEPT !.pc = "done", !.res = [kind |-> "Err", err |-> c.err],
                          !.out = << >>,
                          !.tasks = [j \in DOMAIN call.tasks |-> [st |-> "dropped", item |-> None]]]

\* the future of task i returns item
Settle(call, i, item) ==
    LET t == [call EXCEPT !.overtaken = @ \/ (call.kind = "fetch_mods_ordered"
                                               /\ \E j \in InFlight(call) : j < i),
                          !.failed = IF item.kind = "Err" THEN @ \cup {item.err} ELSE @]
    IN  IF MayDeliver(call.kind, call.out, i)
        THEN Deliver(t, i, item)
        ELSE [t EXCEPT !.tasks[i] = [st |-> "ready", item |-> item]]

\* the stream takes the next future from the iterator
PushFetch(c) ==
    /\ calls[c].pc = "run"
    /\ WindowHasRoom(WindowLen(calls[c]))
    /\ TasksIn(calls[c], {"new"}) # {}
    /\ calls' = [calls EXCEPT ![c].tasks[Min(TasksIn(calls[c], {"new"}))].st = "pushed"]
    /\ UNCHANGED <<worldVars, storeVars, diskVars, blobVars, resolveVars, otherVars>>

\* the first poll of a future: it returns at once, or sends its request
PollFetch(c, i) ==
    /\ calls[c].pc = "run"
    /\ Filled(calls[c])
    /\ Deliverable(calls[c]) = {}
    /\ i \in TasksIn(calls[c], {"pushed"})
    /\ LET s == FetchModStart(calls[c].mods[i], calls[c].update)
       IN  calls' = [calls EXCEPT ![c] =
                        IF s.kind = "Pending"
                        THEN [@ EXCEPT !.tasks[i].st = "net", !.requests = @ + 1]
                        ELSE Settle(@, i, s.item)]
    /\ UNCHANGED <<worldVars, storeVars, diskVars, blobVars, resolveVars, otherVars>>

\* the answer to the request of task i arrives and its future runs to its end
CompleteFetch(c, i) ==
    /\ calls[c].pc = "run"
    /\ Filled(calls[c])
    /\ Deliverable(calls[c]) = {}
    /\ i \in TasksIn(calls[c], {"net"})
    /\ \E a \in remote :
          LET r == FetchModFinish(calls[c].mods[i], a)
          IN  /\ fs' = r.fs
              /\ cache' = r.cache
              /\ calls' = [calls EXCEPT ![c] = Settle(@, i, r.item)]
    /\ UNCHANGED <<worldVars, storeVars, blobVars, resolveVars, otherVars>>

\* buffered: the queued output whose turn has come is yielded
EmitQueued(c) ==
    /\ calls[c].pc = "run"
    /\ Filled(calls[c])
    /\ \E i \in Deliverable(calls[c]) :
          calls' = [calls EXCEPT ![c] = Deliver(@, i, @.tasks[i].item)]
    /\ UNCHANGED <<worldVars, storeVars, diskVars, blobVars, resolveVars, otherVars>>

\* the stream has ended: try_collect returns the Vec
EndFetch(c) ==
    /\ calls[c].pc = "run"
    /\ TasksIn(calls[c], {"emitted"}) = DOMAIN calls[c].tasks
    /\ calls' = [calls EXCEPT ![c].pc = "done",
                              ![c].res = [kind  |-> "Ok",
                                          paths |-> [i \in DOMAIN calls[c].out |->
                                                        calls[c].out[i].path]]]
    /\ UNCHANGED <<worldVars, storeVars, diskVars, blobVars, resolveVars, otherVars>>

\* the call on entry to fetch_mods(list, update) or fetch_mods_ordered(list, update)
RunningCall(kind, list, update) ==
    [IdleCall EXCEPT !.pc = "run", !.kind = kind, !.mods = list, !.update = update,
                     !.tasks = [i \in DOMAIN list |-> NewTask]]

\* The cache directory ModStore::new finds: fresh, or left by an earlier run
\* that downloaded the blob `old` for some of the keys; the blob's file may
\* have been deleted since.
KeysOf(id) ==
    IF id = "http" THEN {l \in DOMAIN FetchWorld : FetchWorld[l].m = {"http"}}
    ELSE {FetchWorld[l].mf : l \in {k \in DOMAIN FetchWorld : FetchWorld[k].m = {"modio"}}} \ {0}

LeftSection(id, keys, old) ==
    IF keys = {} THEN None
    ELSE IF id = "http" THEN [url_blobs |-> [k \in keys |-> Sha256Hex(old)]]
    ELSE [modfile_blobs |-> [k \in keys |-> Sha256Hex(old)]]

LeftByEarlierRun(old) ==
    /\ \E known \in [CachingProviders -> BOOLEAN] :
          cache = [id \in CachingProviders |->
                     LeftSection(id, IF known[id] THEN KeysOf(id) ELSE {}, old)]
    /\ fs \in {EmptyDir, BlobWrite(EmptyDir, old).fs}

InitFetch ==
    /\ IdleOther
    /\ registry = <<"file", "http", "modio">>
    /\ providers \in {NewProviders(parameters) : parameters \in [FactoryIds -> SUBSET {"oauth"}]}
    /\ matches = [l \in DOMAIN FetchWorld |-> FetchWorld[l].m]
    /\ modfile = [l \in DOMAIN FetchWorld |-> FetchWorld[l].mf]
    /\ resp = [l \in DOMAIN FetchWorld |-> None]
    /\ remote = AllAnswers
    /\ gp = None
    /\ LeftByEarlierRun([i \in 1..BlobLen |-> 0])
    /\ \E kind \in FetchKinds, update \in BOOLEAN :
          \E list \in UNION {[1..n -> DOMAIN FetchWorld] : n \in 0..MaxFetch} :
             calls = [c \in CallIds |->
                        IF c = "A" THEN RunningCall(kind, list, update) ELSE IdleCall]
    /\ IdleBlob
    /\ IdleResolve

NextFetch ==
    \/ \E c \in CallIds : PushFetch(c)
    \/ \E c \in CallIds, i \in DOMAIN matches : PollFetch(c, i)
    \/ \E c \in CallIds, i \in DOMAIN matches : CompleteFetch(c, i)
    \/ \E c \in CallIds : EmitQueued(c)
    \/ \E c \in CallIds : EndFetch(c)

SpecFetch == InitFetch /\ [][NextFetch]_vars

(***************************************************************************)
(* Threads on one BlobCache.  BlobCache::write is synchronous code a       *)
(* thread runs system call by system call: File::create on the temporary   *)
(* name, the write(2)s of write_all, fs::rename.  Each writer stores its   *)
(* blob again and again; the reader asks get_path and reads the path.      *)
(***************************************************************************)
OpenFds == {writers[w].fd : w \in WriterIds} \ {0}

\* write(blob): hash, then fs::write opens the temporary file
OpenTmp(w) ==
    /\ writers[w].pc = "idle"
    /\ LET c == FsCreate(fs, TmpName(Sha256Hex(writers[w].blob)))
       IN  /\ fs' = c.fs
           /\ writers' = [writers EXCEPT ![w] = [@ EXCEPT !.pc = "write", !.fd = c.ino,
                                                          !.off = 0]]
    /\ UNCHANGED <<worldVars, storeVars, cache, fetchVars, reader, resolveVars, otherVars>>

\* write_all: one write(2) takes n of the bytes that are left
WriteChunk(w, n) ==
    /\ writers[w].pc = "write"
    /\ n \in 1..(Len(writers[w].blob) - writers[w].off)
    /\ fs' = FsWriteAt(fs, writers[w].fd, writers[w].off,
                       SubSeq(writers[w].blob, writers[w].off + 1, writers[w].off + n))
    /\ writers' = [writers EXCEPT ![w].off = @ + n]
    /\ UNCHANGED <<worldVars, storeVars, cache, fetchVars, reader, resolveVars, otherVars>>

\* the file is closed and renamed to the digest; write returns the BlobRef,
\* or the error of the rename
RenameTmp(w) ==
    /\ writers[w].pc = "write"
    /\ writers[w].off = Len(writers[w].blob)
    /\ LET hash == Sha256Hex(writers[w].blob)
           r    == FsRename(fs, TmpName(hash), BlobName(hash))
       IN  /\ fs' = FsCollect(r.fs, OpenFds \ {writers[w].fd})
           /\ writers' = [writers EXCEPT ![w] =
                             [@ EXCEPT !.pc = "idle", !.fd = 0,
                                       !.res = IF r.ok THEN [kind |-> "Ok", ref |-> hash]
                                               ELSE [kind |-> "Err", err |-> "NotFound"]]]
    /\ UNCHANGED <<worldVars, storeVars, cache, fetchVars, reader, resolveVars, otherVars>>

\* the reader gets a path from get_path
ReaderGetPath(ref) ==
    /\ reader.pc # "path"
    /\ GetPath(fs, ref) # None
    /\ reader' = [pc |-> "path", ref |-> ref, data |-> None]
    /\ UNCHANGED <<worldVars, storeVars, diskVars, fetchVars, writers, resolveVars, otherVars>>

\* and reads the file behind it
ReaderRead ==
    /\ reader.pc = "path"
    /\ reader' = [reader EXCEPT !.pc = "read",
                                !.data = fs.data[fs.dir[BlobName(reader.ref)]]]
    /\ UNCHANGED <<worldVars, storeVars, diskVars, fetchVars, writers, resolveVars, otherVars>>

InitBlob ==
    /\ IdleOther
    /\ registry = <<"file", "http", "modio">>
    /\ providers = NewProviders([f \in FactoryIds |-> {}])
    /\ matches = << >>
    /\ resp = << >>
    /\ modfile = << >>
    /\ remote = {}
    /\ gp = None
    /\ NewStore
    /\ IdleFetch
    /\ IdleResolve
    /\ writers \in [WriterIds -> {[pc |-> "idle", blob |-> b, fd |-> 0, off |-> 0, res |-> None] :
                                     b \in Blobs}]
    /\ reader = [pc |-> "idle", ref |-> 0, data |-> None]

NextBlob ==
    \/ \E w \in WriterIds : OpenTmp(w)
    \/ \E w \in WriterIds, n \in 1..BlobLen : WriteChunk(w, n)
    \/ \E w \in WriterIds : RenameTmp(w)
    \/ \E w \in WriterIds : ReaderGetPath(Sha256Hex(writers[w].blob))
    \/ ReaderRead

SpecBlob == InitBlob /\ [][NextBlob]_vars

\* Threads that run the tail of a provider's fetch_mod: blob_cache.write,
\* then the insert of url -> BlobRef into the provider's section.  Writer w
\* fetches the url FetchUrl(w).
FetchUrl(w) == IF w = "w1" THEN 1 ELSE 2

Recorded(w) ==
    /\ writers[w].res.kind = "Ok"
    /\ CacheGet(cache, "http") # None
    /\ FetchUrl(w) \in DOMAIN CacheGet(cache, "http").url_blobs
    /\ CacheGet(cache, "http").url_blobs[FetchUrl(w)] = writers[w].res.ref

\* the next fetch of the thread begins when the one before has returned
OpenTmpNextFetch(w) ==
    /\ writers[w].res.kind # "Ok" \/ Recorded(w)
    /\ OpenTmp(w)

\* write returned Ok(blob): cache.write().unwrap().get_mut(..).url_blobs.insert(url, blob)
InsertRef(w) ==
    /\ writers[w].pc = "idle"
    /\ writers[w].res.kind = "Ok"
    /\ ~Recorded(w)
    /\ cache' = [CacheGetMut(cache, "http") EXCEPT
                    !.http.url_blobs = MapInsert(@, FetchUrl(w), writers[w].res.ref)]
    /\ UNCHANGED <<worldVars, storeVars, fs, fetchVars, blobVars, resolveVars, otherVars>>

NextFetchThreads ==
    \/ \E w \in WriterIds : OpenTmpNextFetch(w)
    \/ \E w \in WriterIds, n \in 1..BlobLen : WriteChunk(w, n)
    \/ \E w \in WriterIds : RenameTmp(w)
    \/ \E w \in WriterIds : InsertRef(w)
    \/ \E w \in WriterIds : ReaderGetPath(Sha256Hex(writers[w].blob))
    \/ ReaderRead

SpecFetchThreads == InitBlob /\ [][NextFetchThreads]_vars

\* write is synchronous: callers that share a thread (the futures of one
\* buffer) run it one after the other, from File::create to fs::rename
OpenTmpAlone(w) ==
    /\ \A v \in WriterIds : writers[v].pc = "idle"
    /\ OpenTmp(w)

NextBlobSeq ==
    \/ \E w \in WriterIds : OpenTmpAlone(w)
    \/ \E w \in WriterIds, n \in 1..BlobLen : WriteChunk(w, n)
    \/ \E w \in WriterIds : RenameTmp(w)
    \/ \E w \in WriterIds : ReaderGetPath(Sha256Hex(writers[w].blob))
    \/ ReaderRead

SpecBlobSeq == InitBlob /\ [][NextBlobSeq]_vars

(***************************************************************************)
(* More work than the window holds: resolve_mods of Width + 1 specs that   *)
(* all resolve; fetch_mods, or fetch_mods_ordered, on a list that names    *)
(* one http url Width + 1 times; and the two running at the same time,     *)
(* each on a list that fills its window.  The fetches force an update, so  *)
(* every one of them downloads.                                            *)
(***************************************************************************)
Oversubscribed == [i \in 1..(Width + 1) |-> i]

Downloads(n) == [i \in 1..n |-> 1]

InitWidth ==
    /\ IdleOther
    /\ registry = <<"file", "http", "modio">>
    /\ providers = NewProviders([f \in FactoryIds |-> {}])
    /\ matches = [l \in DOMAIN Oversubscribed |-> {"http"}]
    /\ resp = [l \in DOMAIN Oversubscribed |-> HttpResolve(l)]
    /\ modfile = [l \in DOMAIN Oversubscribed |-> 0]
    /\ remote = {[status |-> "ok", ctype |-> "application/zip", bytes |-> [i \in 1..BlobLen |-> 0]]}
    /\ gp = None
    /\ NewStore
    /\ IdleBlob
    /\ \/ /\ EnterResolve(Oversubscribed)
          /\ IdleFetch
       \/ /\ IdleResolve
          /\ \/ calls = [c \in CallIds |->
                           IF c = "A" THEN RunningCall("fetch_mods", Downloads(Width + 1), TRUE)
                           ELSE IdleCall]
             \/ calls = [c \in CallIds |->
                           IF c = "B" THEN RunningCall("fetch_mods_ordered", Downloads(Width + 1), TRUE)
                           ELSE IdleCall]
             \/ calls = [c \in CallIds |->
                           RunningCall(IF c = "A" THEN "fetch_mods" ELSE "fetch_mods_ordered",
                                       Downloads(Width), TRUE)]

NextWidth ==
    \/ WhileHead
    \/ \E u \in DOMAIN matches : StartResolve(u)
    \/ \E u \in DOMAIN matches : PollResolve(u)
    \/ EndRound
    \/ \E c \in CallIds : PushFetch(c)
    \/ \E c \in CallIds, i \in DOMAIN matches : PollFetch(c, i)
    \/ \E c \in CallIds, i \in DOMAIN matches : CompleteFetch(c, i)
    \/ \E c \in CallIds : EmitQueued(c)
    \/ \E c \in CallIds : EndFetch(c)

SpecWidth == InitWidth /\ [][NextWidth]_vars

Spec == SpecResolve

(***************************************************************************)
(* What a spec's redirect chain ends in, read off the world: the answer    *)
(* that is not a Redirect (Unknown where the world has not decided yet),   *)
(* or None when `fuel` answers were all redirects.                         *)
(***************************************************************************)
RECURSIVE Follow(_, _)
Follow(s, fuel) ==
    IF fuel = 0 THEN None
    ELSE IF resp[s] = Unknown THEN Unknown
    ELSE LET a == ProviderAnswer(s)
         IN  IF a.kind = "Redirect" THEN Follow(a.spec, fuel - 1) ELSE a

\* a chain over n locators that has not ended after n answers is a cycle
ChainEnd(s) == Follow(s, Cardinality(DOMAIN matches))

DepsOf(s) == IF ChainEnd(s).kind = "Resolve" THEN ChainEnd(s).deps ELSE {}

\* the specs that name the mod of spec x: x, the spec its ModInfo reports,
\* and the specs whose ModInfo reports x
Names(x) ==
    {x} \cup {y \in DOMAIN matches : ChainEnd(y).kind = "Resolve" /\ ChainEnd(y).spec = x}
        \cup (IF ChainEnd(x).kind = "Resolve" THEN {ChainEnd(x).spec} ELSE {})

RECURSIVE ReachSet(_, _)
ReachSet(S, k) ==
    IF k = 0 THEN S
    ELSE ReachSet(S \cup UNION {DepsOf(x) \cup Names(x) : x \in S}, k - 1)

\* no mod depends on itself, directly or through other mods, under any of
\* its names
AcyclicDeps ==
    \A s \in DOMAIN matches :
        Names(s) \cap ReachSet(UNION {DepsOf(y) : y \in Names(s)},
                               2 * Cardinality(DOMAIN matches)) = {}

\* no lookup or backend failure and no redirect cycle, as far as the world
\* has answered
AllResolve == \A s \in DOMAIN matches : ChainEnd(s).kind \in {"Resolve", "Unknown"}

(***************************************************************************)
(* C1: resolve_mods([]) returns the empty map; a returned map has an entry *)
(* for every distinct input spec, under the input spec itself, holding the *)
(* ModInfo its redirect chain ended in; and no key is a mere redirect      *)
(* target: every key is an input spec or a suggested dependency.           *)
(***************************************************************************)
C1_KeyedByOriginalSpec ==
    rpc = "done" =>
        /\ rresult.kind = "Ok"
        /\ mods = << >> => DOMAIN rresult.map = {}
        /\ \A s \in Range(mods) :
              /\ s \in DOMAIN rresult.map
              /\ ChainEnd(s).kind = "Resolve"
              /\ rresult.map[s] = [spec |-> ChainEnd(s).spec, deps |-> ChainEnd(s).deps]
        /\ DOMAIN rresult.map \subseteq Range(mods) \cup AllDeps(rresult.map)

\* a call has returned for an input spec that was redirected twice, to
\* locators that are not keys of the result
C1_Witness ==
    /\ rpc = "done"
    /\ \E s \in Range(mods) :
          /\ resp[s].kind = "Redirect"
          /\ resp[resp[s].spec].kind = "Redirect"
          /\ resp[s].spec \notin DOMAIN rresult.map
          /\ resp[resp[s].spec].spec \notin DOMAIN rresult.map

(***************************************************************************)
(* C2: resolve_mods eventually returns, unless the world turns out to have *)
(* a dependency cycle, a failing spec or a redirect cycle.                 *)
(***************************************************************************)
C2_Terminates == <>(rpc = "done" \/ ~(AcyclicDeps /\ AllResolve))

C4_FailureAbortsBatch ==
    /\ failure # None =>
          /\ rpc = "err"
          /\ rresult = [kind |-> "Err", err |-> failure]
          /\ iter = {} /\ DOMAIN inflight = {}
          /\ ~ENABLED NextResolve
    /\ rpc = "done" => failure = None /\ rresult.kind = "Ok"

\* the failure came in a later round, after part of the graph was resolved
C4_Witness ==
    /\ rpc = "err"
    /\ failure # None
    /\ DOMAIN mods_map # {}
    /\ failure.url \notin Range(mods)

(***************************************************************************)
(* C7: get_provider returns what the FIRST descriptor in registration      *)
(* order whose predicate matches decides: its provider when the store has  *)
(* one, else NoProvider carrying the locator and that descriptor, even     *)
(* when a later descriptor matches and has a provider.                     *)
(***************************************************************************)
C7_FirstMatchDecides ==
    gp # None =>
        \A i \in DOMAIN registry :
            (/\ registry[i] \in matches[gp.url]
             /\ \A j \in 1..(i - 1) : registry[j] \notin matches[gp.url])
            => /\ gp.res.factory = registry[i]
               /\ gp.res.url = gp.url
               /\ gp.res.kind = IF registry[i] \in gp.had THEN "Ok" ELSE "NoProvider"

\* NoProvider was returned although a later matching descriptor had a provider
C7_Witness ==
    /\ gp # None
    /\ gp.res.kind = "NoProvider"
    /\ \E f \in matches[gp.url] : f \in gp.had

C5_OutputOrderIsInputOrder ==
    \A c \in CallIds :
        (calls[c].pc = "done" /\ calls[c].kind = "fetch_mods_ordered"
            /\ calls[c].res.kind = "Ok")
        => /\ Len(calls[c].res.paths) = Len(calls[c].mods)
           /\ \A i \in DOMAIN calls[c].mods :
                 /\ calls[c].tasks[i].item.kind = "Ok"
                 /\ calls[c].res.paths[i] = calls[c].tasks[i].item.path

\* fetch_mods_ordered returned two different paths, and the fetch of the
\* second position had completed while the first was still in flight
C5_Witness ==
    \E c \in CallIds :
        /\ calls[c].pc = "done" /\ calls[c].kind = "fetch_mods_ordered"
        /\ calls[c].res.kind = "Ok"
        /\ calls[c].overtaken
        /\ Len(calls[c].res.paths) >= 2
        /\ calls[c].res.paths[1] # calls[c].res.paths[2]

(***************************************************************************)
(* C6: a file visible under a digest name never has partial content: its   *)
(* bytes, and the bytes a reader reads from a path it got from get_path,   *)
(* are the bytes whose digest is the name.                                 *)
(***************************************************************************)
C6_NoPartialContent ==
    /\ \A name \in DOMAIN fs.dir :
          ~name.dot => Sha256Hex(fs.data[fs.dir[name]]) = name.hash
    /\ reader.pc = "read" => Sha256Hex(reader.data) = reader.ref

(***************************************************************************)
(* C9: at any moment one call of resolve_mods, fetch_mods or               *)
(* fetch_mods_ordered has at most Width provider operations in flight.     *)
(***************************************************************************)
C9_AtMostWidthInFlight ==
    /\ Cardinality(DOMAIN inflight) <= Width
    /\ \A c \in CallIds : Cardinality(InFlight(calls[c])) <= Width

\* two calls at the same time wait for 2 * Width downloads
C9_Witness ==
    Cardinality(TasksIn(calls["A"], {"net"})) + Cardinality(TasksIn(calls["B"], {"net"}))
        = 2 * Width

(***************************************************************************)
(* C10: when the cache of a caching provider maps the key of a resolution  *)
(* to a blob whose file exists and update is not set, the fetch returns    *)
(* the path of that blob at its first poll, sends no request and leaves    *)
(* the provider cache and the blob store as they are.                      *)
(***************************************************************************)
\* the BlobRef the provider cache holds for url, when its file exists
CachedRef(url) ==
    LET p   == GetProvider(url)
        id  == p.factory
        map == IF id = "http" THEN cache[id].url_blobs ELSE cache[id].modfile_blobs
        key == IF id = "http" THEN url ELSE modfile[url]
    IN  IF p.kind # "Ok" \/ id \notin CachingProviders THEN None
        ELSE IF id = "modio" /\ modfile[url] = 0 THEN None
        ELSE IF cache[id] = None THEN None
        ELSE IF key \notin DOMAIN map THEN None
        ELSE IF BlobName(map[key]) \notin DOMAIN fs.dir THEN None
        ELSE [kind |-> "Some", ref |-> map[key]]

C10_CacheHitIsLocal ==
    [][\A c \in CallIds :
          calls[c].pc = "run"
          => \A i \in DOMAIN calls[c].tasks :
                (/\ calls[c].tasks[i].st = "pushed"
                 /\ calls'[c].tasks[i].st \in {"net", "ready", "emitted"}
                 /\ ~calls[c].update
                 /\ CachedRef(calls[c].mods[i]) # None)
                => /\ calls'[c].tasks[i].item = Ok(BlobPath(CachedRef(calls[c].mods[i]).ref))
                   /\ calls'[c].requests = calls[c].requests
                   /\ cache' = cache
                   /\ fs' = fs]_vars

\* a call that did not force an update got the path of a blob and sent no
\* request
C10_Witness ==
    \E c \in CallIds :
        /\ ~calls[c].update
        /\ calls[c].requests = 0
        /\ \E i \in DOMAIN calls[c].tasks :
              /\ calls[c].tasks[i].item # None
              /\ calls[c].tasks[i].item.kind = "Ok"
              /\ calls[c].tasks[i].item.path.dir = "blobs"

(***************************************************************************)
(* C11: when update is set, or the cache of a caching provider maps the    *)
(* key of a resolution to no existing blob, the fetch sends its request;   *)
(* and a fetch whose download succeeds has stored the bytes, recorded      *)
(* key -> BlobRef in its section and returns the path of the stored blob.  *)
(***************************************************************************)
\* url is served by a caching provider and carries a cache key
HasCacheKey(url) ==
    /\ GetProvider(url).kind = "Ok"
    /\ GetProvider(url).factory \in CachingProviders
    /\ GetProvider(url).factory = "modio" => modfile[url] # 0

\* the section of doc for url's provider maps url's key to ref
MapsKey(doc, url, ref) ==
    LET id == GetProvider(url).factory
    IN  /\ doc[id] # None
        /\ IF id = "http"
           THEN url \in DOMAIN doc[id].url_blobs /\ doc[id].url_blobs[url] = ref
           ELSE /\ modfile[url] \in DOMAIN doc[id].modfile_blobs
                /\ doc[id].modfile_blobs[modfile[url]] = ref

C11_MissOrUpdateRetrieves ==
    [][\A c \in CallIds :
          calls[c].pc = "run"
          => \A i \in DOMAIN calls[c].tasks :
                /\ (/\ calls[c].tasks[i].st = "pushed"
                    /\ calls'[c].tasks[i].st \in {"net", "ready", "emitted"}
                    /\ HasCacheKey(calls[c].mods[i])
                    /\ calls[c].update \/ CachedRef(calls[c].mods[i]) = None)
                   => /\ calls'[c].tasks[i].st = "net"
                      /\ calls'[c].requests = calls[c].requests + 1
                /\ (/\ calls[c].tasks[i].st = "net"
                    /\ calls'[c].tasks[i].st \in {"ready", "emitted"}
                    /\ calls'[c].tasks[i].item.kind = "Ok")
                   => \E b \in Payloads :
                         /\ calls'[c].tasks[i].item.path = BlobPath(Sha256Hex(b))
                         /\ BlobName(Sha256Hex(b)) \in DOMAIN fs'.dir
                         /\ fs'.data[fs'.dir[BlobName(Sha256Hex(b))]] = b
                         /\ MapsKey(cache', calls[c].mods[i], Sha256Hex(b))]_vars

(***************************************************************************)
(* The lock of the provider cache.  The cache is Arc<RwLock<..>>; a future *)
(* of fetch_mod or resolve_mod is written here as the sequence of its lock *)
(* operations and suspension points in program order: "read" / "write"     *)
(* take a guard, "drop_read" / "drop_write" are the end of the guard's     *)
(* scope, "await" is a network call.                                       *)
(***************************************************************************)
\* the guard outliving the section: dropped where the function ends
GuardScopeToEnd(mode, rest) == <<mode>> \o rest \o <<"drop_" \o mode>>

\* cache.read().unwrap()...  /  cache.write().unwrap()... followed by `rest`:
\* the guard is a temporary of the else block, closure or statement that
\* holds the lookup (or a local of a block that ends without a further
\* await), so it is dropped before `rest` runs
GuardScope(mode, rest) == <<mode, "drop_" \o mode>> \o rest

\* HttpProvider::fetch_mod
HttpFetchSteps(update, hit) ==
    IF update
    THEN <<"await", "await">> \o GuardScope("write", << >>)
    ELSE GuardScope("read", IF hit THEN << >>
                            ELSE <<"await", "await">> \o GuardScope("write", << >>))

\* ModioProvider::fetch_mod of a fully specified url
ModioFetchSteps(hit) ==
    GuardScope("read", IF hit THEN << >>
                       ELSE <<"await", "await">> \o GuardScope("write", << >>))

\* one cached item of ModioProvider::resolve_mod (the mod, then its
\* dependencies), followed by `rest`
ModioItemSteps(update, hit, rest) ==
    IF update
    THEN <<"await">> \o GuardScope("write", rest)
    ELSE GuardScope("read", IF hit THEN rest ELSE <<"await">> \o GuardScope("write", rest))

\* ModioProvider::resolve_mod of a url with mod id and modfile id
ModioResolveSteps(update, mod_hit, deps_hit) ==
    ModioItemSteps(update, mod_hit, ModioItemSteps(update, deps_hit, << >>))

FutPrograms ==
    {HttpFetchSteps(u, h) : u, h \in BOOLEAN}
        \cup {ModioFetchSteps(h) : h \in BOOLEAN}
        \cup {ModioResolveSteps(u, m, d) : u, m, d \in BOOLEAN}

AtStep(t, step) ==
    /\ futs[t].pc <= Len(futs[t].prog)
    /\ futs[t].prog[futs[t].pc] = step

Advance(t) == futs' = [futs EXCEPT ![t].pc = @ + 1, ![t].suspended = FALSE]

lockFrame == <<worldVars, storeVars, diskVars, fetchVars, blobVars, resolveVars,
               refresh, probe>>

\* RwLock::read: blocks while a writer holds the lock
AcquireRead(t) ==
    /\ AtStep(t, "read")
    /\ lock.writer = {}
    /\ lock' = [lock EXCEPT !.readers = @ \cup {t}]
    /\ Advance(t)
    /\ UNCHANGED lockFrame

\* RwLock::write: blocks while anyone holds the lock
AcquireWrite(t) ==
    /\ AtStep(t, "write")
    /\ lock.writer = {}
    /\ lock.readers = {}
    /\ lock' = [lock EXCEPT !.writer = {t}]
    /\ Advance(t)
    /\ UNCHANGED lockFrame

\* the guard goes out of scope
DropGuard(t) ==
    /\ \/ AtStep(t, "drop_read") /\ lock' = [lock EXCEPT !.readers = @ \ {t}]
       \/ AtStep(t, "drop_write") /\ lock' = [lock EXCEPT !.writer = {}]
    /\ Advance(t)
    /\ UNCHANGED lockFrame

\* .await on a request that is not answered yet: the future returns Pending
Suspend(t) ==
    /\ AtStep(t, "await")
    /\ ~futs[t].suspended
    /\ futs' = [futs EXCEPT ![t].suspended = TRUE]
    /\ UNCHANGED <<lock, lockFrame>>

\* the answer arrived and the future is polled again
Resume(t) ==
    /\ futs[t].suspended
    /\ Advance(t)
    /\ UNCHANGED <<lock, lockFrame>>

\* two futures that share the cache, each of any provider operation
InitLock ==
    /\ registry \in Perms(FactoryIds)
    /\ matches = [l \in 1..NUrls |-> {}]
    /\ resp = [l \in 1..NUrls |-> None]
    /\ modfile = [l \in 1..NUrls |-> 0]
    /\ remote = {}
    /\ NewStore
    /\ IdleFetch
    /\ IdleBlob
    /\ providers = FactoryIds
    /\ gp = None
    /\ IdleResolve
    /\ IdleRefresh
    /\ probe = None
    /\ lock = [readers |-> {}, writer |-> {}]
    /\ futs \in [FutIds -> {[prog |-> p, pc |-> 1, suspended |-> FALSE] : p \in FutPrograms}]

NextLock ==
    \/ \E t \in FutIds : AcquireRead(t)
    \/ \E t \in FutIds : AcquireWrite(t)
    \/ \E t \in FutIds : DropGuard(t)
    \/ \E t \in FutIds : Suspend(t)
    \/ \E t \in FutIds : Resume(t)

SpecLock == InitLock /\ [][NextLock]_vars

(***************************************************************************)
(* C12: a future that is suspended on a network call holds neither a read  *)
(* guard nor the write guard of the provider cache, so no other future is  *)
(* ever kept waiting for the lock by a suspended one.                      *)
(***************************************************************************)
C12_NoGuardAcrossAwait ==
    \A t \in FutIds :
        futs[t].suspended => t \notin lock.readers /\ t \notin lock.writer

\* one future is suspended after its cache miss while the other one, which
\* has been through its own network calls, holds the write guard
C12_Witness ==
    \E t, u \in FutIds :
        /\ futs[t].suspended
        /\ futs[t].pc > 2
        /\ lock.writer = {u}
        /\ u # t
        /\ \E k \in 1..(futs[u].pc - 1) : futs[u].prog[k] = "await"

(***************************************************************************)
(* C13: BlobCache::write is content-addressed and idempotent.  Every write *)
(* returns the hex digest of its bytes, so equal bytes give equal          *)
(* BlobRefs; once the writes have returned the directory holds exactly one *)
(* file per written digest and no temporary file; and a write of bytes     *)
(* whose digest is already stored never changes what the stored file       *)
(* holds.  (Writes that do not overlap; overlapping writers are C6.)       *)
(***************************************************************************)
Written == {w \in WriterIds : writers[w].res # None}

C13_WriteIsIdempotent ==
    /\ \A w \in Written : writers[w].res = [kind |-> "Ok", ref |-> Sha256Hex(writers[w].blob)]
    /\ \A w \in Written :
          /\ BlobName(Sha256Hex(writers[w].blob)) \in DOMAIN fs.dir
          /\ fs.data[fs.dir[BlobName(Sha256Hex(writers[w].blob))]] = writers[w].blob
    /\ (\A w \in WriterIds : writers[w].pc = "idle") =>
          /\ DOMAIN fs.dir = {BlobName(Sha256Hex(writers[w].blob)) : w \in Written}
          /\ Cardinality(DOMAIN fs.data) = Cardinality(DOMAIN fs.dir)

\* the same bytes have been written twice, and are being written once more
C13_Witness ==
    /\ Written = WriterIds
    /\ \A v, w \in WriterIds : writers[v].blob = writers[w].blob
    /\ \E w \in WriterIds : Len(writers[w].blob) = BlobLen /\ writers[w].pc = "write"
    /\ \E w \in WriterIds : writers[w].pc = "idle"

(***************************************************************************)
(* C14: after write(b) has returned, get_path of the returned BlobRef is a *)
(* present path whose file holds b, whatever else is written afterwards;   *)
(* get_path of a BlobRef no write has returned is none, also while the     *)
(* temporary file of a write of those bytes exists, and a path get_path    *)
(* returns never names a temporary file.                                   *)
(***************************************************************************)
Refs == {Sha256Hex(b) : b \in Blobs}

C14_WriteThenGetPath ==
    /\ \A w \in Written :
          /\ GetPath(fs, writers[w].res.ref) = [kind |-> "Some", path |-> BlobPath(writers[w].res.ref)]
          /\ fs.data[fs.dir[GetPath(fs, writers[w].res.ref).path.name]] = writers[w].blob
    /\ \A ref \in Refs :
          /\ (\A w \in Written : writers[w].res.ref # ref) => GetPath(fs, ref) = None
          /\ GetPath(fs, ref) # None => ~GetPath(fs, ref).path.name.dot
    /\ reader.pc = "read" =>
          \E w \in Written : reader.ref = writers[w].res.ref /\ reader.data = writers[w].blob

\* one blob is stored and has been read back, and the temporary file of a
\* first write of other bytes is in the directory
C14_Witness ==
    /\ reader.pc = "read"
    /\ \E w \in WriterIds :
          /\ w \notin Written
          /\ writers[w].pc = "write"
          /\ TmpName(Sha256Hex(writers[w].blob)) \in DOMAIN fs.dir
          /\ reader.ref # Sha256Hex(writers[w].blob)

(***************************************************************************)
(* C15: a fetch_mod that fails ends the whole call of fetch_mods or        *)
(* fetch_mods_ordered.  The call returns an error some fetch of the batch  *)
(* returned and no path, not even of the fetches that had completed; once  *)
(* it has returned no fetch of the batch is in flight and none is started. *)
(* Until then (fetch_mods_ordered only) the failure waits in the buffer    *)
(* for its turn.                                                           *)
(***************************************************************************)
CallStep(c) ==
    \/ PushFetch(c)
    \/ \E i \in DOMAIN matches : PollFetch(c, i)
    \/ \E i \in DOMAIN matches : CompleteFetch(c, i)
    \/ EmitQueued(c)
    \/ EndFetch(c)

C16_PathsInCompletionOrder ==
    [][\A c \in CallIds :
          (calls[c].pc = "run" /\ calls[c].kind = "fetch_mods") =>
             /\ \A i \in DOMAIN calls[c].tasks :
                   (/\ calls[c].tasks[i].st \in {"pushed", "net"}
                    /\ calls'[c].tasks[i].st \notin {"pushed", "net"}
                    /\ calls'[c].pc = "run")
                   => /\ calls'[c].tasks[i].st = "emitted"
                      /\ calls'[c].out = Append(calls[c].out, calls'[c].tasks[i].item)
             /\ (calls'[c].pc = "done" /\ calls'[c].res.kind = "Ok") =>
                   /\ Len(calls'[c].res.paths) = Len(calls[c].mods)
                   /\ calls'[c].res.paths = [k \in DOMAIN calls[c].out |-> calls[c].out[k].path]
                   /\ \E f \in Perms(DOMAIN calls[c].mods) :
                         \A k \in DOMAIN calls[c].mods :
                            calls'[c].res.paths[k] = calls[c].tasks[f[k]].item.path
    ]_vars

\* fetch_mods returned the path of its second input first
C16_Witness ==
    \E c \in CallIds :
        /\ calls[c].pc = "done" /\ calls[c].kind = "fetch_mods"
        /\ calls[c].res.kind = "Ok"
        /\ Len(calls[c].res.paths) = 2
        /\ calls[c].res.paths[1] = calls[c].tasks[2].item.path
        /\ calls[c].res.paths[1] # calls[c].tasks[1].item.path

(***************************************************************************)
(* One call of ModStore::update_cache: a for loop over a clone of the      *)
(* provider map, awaiting the refresh of one provider before it takes the  *)
(* next.  HashMap iteration gives the providers in any order.  What a      *)
(* provider does in its update_cache is its own; here it succeeds or       *)
(* fails.  add_provider may run in between: it changes the store's map,    *)
(* not the clone.                                                          *)
(***************************************************************************)
MayStartTogether(running) == TRUE

\* `.await?` inside the loop body: the next iteration begins when the
\* refresh in flight has returned
MayStartNext(running) == running = {}

\* for (name, provider) in providers.iter() { provider.update_cache(..)
StartRefresh(p) ==
    /\ refresh.pc = "run"
    /\ MayStartNext(refresh.running)
    /\ p \in refresh.todo
    /\ refresh' = [refresh EXCEPT !.todo = @ \ {p}, !.running = @ \cup {p}]
    /\ UNCHANGED <<worldVars, storeVars, diskVars, fetchVars, blobVars, resolveVars,
                   lockVars, probe>>

\* .await?: the refresh of p returns; an Err is returned from update_cache
FinishRefresh(p, ok) ==
    /\ refresh.pc = "run"
    /\ p \in refresh.running
    /\ refresh' = IF ok
                  THEN [refresh EXCEPT !.running = @ \ {p}, !.refreshed = @ \cup {p}]
                  ELSE [refresh EXCEPT !.running = {}, !.pc = "done",
                                       !.res = [kind |-> "Err", by |-> p]]
    /\ UNCHANGED <<worldVars, storeVars, diskVars, fetchVars, blobVars, resolveVars,
                   lockVars, probe>>

\* the loop is over: Ok(())
EndRefresh ==
    /\ refresh.pc = "run"
    /\ refresh.todo = {}
    /\ refresh.running = {}
    /\ refresh' = [refresh EXCEPT !.pc = "done", !.res = [kind |-> "Ok"]]
    /\ UNCHANGED <<worldVars, storeVars, diskVars, fetchVars, blobVars, resolveVars,
                   lockVars, probe>>

RefreshStep ==
    \/ \E p \in FactoryIds : StartRefresh(p)
    \/ \E p \in FactoryIds, ok \in BOOLEAN : FinishRefresh(p, ok)
    \/ EndRefresh

InitRefresh ==
    /\ registry \in Perms(FactoryIds)
    /\ matches = [l \in 1..NUrls |-> {}]
    /\ resp = [l \in 1..NUrls |-> None]
    /\ modfile = [l \in 1..NUrls |-> 0]
    /\ remote = {}
    /\ NewStore
    /\ IdleFetch
    /\ IdleBlob
    /\ providers \in {NewProviders(parameters) : parameters \in [FactoryIds -> SUBSET {"oauth"}]}
    /\ gp = None
    /\ IdleResolve
    /\ IdleLock
    /\ probe = None
    /\ refresh = [pc |-> "run", snapshot |-> providers, todo |-> providers, running |-> {},
                  refreshed |-> {}, res |-> None]

NextRefresh ==
    \/ RefreshStep
    \/ \E f \in FactoryIds, params \in SUBSET {"oauth"} : AddProvider(f, params)

SpecRefresh == InitRefresh /\ [][NextRefresh]_vars

(***************************************************************************)
(* C17: update_cache refreshes the providers one after another: never are  *)
(* two refreshes of the call in flight; a refresh that fails ends the call *)
(* with its error, and the providers the loop had not reached are not      *)
(* refreshed, then or later; a call that returns Ok has refreshed every    *)
(* provider the store had when it was called.                              *)
(***************************************************************************)
C17_RefreshIsSequential ==
    /\ Cardinality(refresh.running) <= 1
    /\ (refresh.pc = "done" /\ refresh.res.kind = "Err") =>
          /\ refresh.running = {}
          /\ refresh.res.by \in refresh.snapshot \ refresh.refreshed
          /\ refresh.todo = refresh.snapshot \ (refresh.refreshed \cup {refresh.res.by})
          /\ ~ENABLED RefreshStep
    /\ (refresh.pc = "done" /\ refresh.res.kind = "Ok") =>
          refresh.refreshed = refresh.snapshot

\* the second of three refreshes failed: one provider is refreshed, one is
\* never visited
C17_Witness ==
    /\ refresh.pc = "done"
    /\ refresh.res.kind = "Err"
    /\ refresh.refreshed # {}
    /\ refresh.todo # {}

(***************************************************************************)
(* The accessors of the cache document, called as the providers call them: *)
(* a typed read, and a typed mutable access through which an entry may be  *)
(* inserted.  probe records the call, the document before it and what the  *)
(* call handed out.                                                        *)
(***************************************************************************)
CacheRefs == {Sha256Hex(b) : b \in Payloads}

\* cache.read().unwrap().get::<T>(id)
CacheRead(id) ==
    /\ probe' = [op |-> "get", id |-> id, before |-> cache, res |-> CacheGet(cache, id)]
    /\ UNCHANGED <<worldVars, storeVars, diskVars, fetchVars, blobVars, resolveVars,
                   lockVars, refresh>>

\* the map of a section the providers insert into
Entries(section, id) == IF id = "http" THEN section.url_blobs ELSE section.modfile_blobs

WithEntries(section, id, entries) ==
    IF id = "http" THEN [section EXCEPT !.url_blobs = entries]
    ELSE [section EXCEPT !.modfile_blobs = entries]

\* cache.write().unwrap().get_mut::<T>(id), and .insert(key, ref) on it or
\* nothing (insert = FALSE)
CacheMutate(id, insert, key, ref) ==
    LET doc == CacheGetMut(cache, id)
    IN  /\ cache' = IF insert
                    THEN [doc EXCEPT ![id] = WithEntries(@, id, MapInsert(Entries(@, id), key, ref))]
                    ELSE doc
        /\ probe' = [op |-> "get_mut", id |-> id, before |-> cache, res |-> doc[id],
                     insert |-> insert, key |-> key, ref |-> ref]
        /\ UNCHANGED <<worldVars, storeVars, fs, fetchVars, blobVars, resolveVars,
                       lockVars, refresh>>

InitCache ==
    /\ registry = <<"file", "http", "modio">>
    /\ providers = FactoryIds
    /\ matches = [l \in 1..NUrls |-> {}]
    /\ resp = [l \in 1..NUrls |-> None]
    /\ modfile = [l \in 1..NUrls |-> 0]
    /\ remote = {}
    /\ gp = None
    /\ NewStore
    /\ IdleFetch
    /\ IdleBlob
    /\ IdleResolve
    /\ IdleOther

NextCache ==
    \/ \E id \in CachingProviders : CacheRead(id)
    \/ \E id \in CachingProviders, insert \in BOOLEAN, key \in 1..NUrls, ref \in CacheRefs :
          CacheMutate(id, insert, key, ref)

SpecCache == InitCache /\ [][NextCache]_vars

(***************************************************************************)
(* C18: a typed read of an absent section returns none and leaves the      *)
(* document as it was; a typed mutable access hands out the section,       *)
(* default-constructed when it was absent, and a read after it returns     *)
(* that section with what was inserted through the access; the sections of *)
(* the other provider ids are the same before and after.                   *)
(***************************************************************************)
C18_GetAndGetMut ==
    /\ (probe # None /\ probe.op = "get") =>
          /\ probe.before[probe.id] = None => probe.res = None
          /\ probe.before[probe.id] # None => probe.res = probe.before[probe.id]
          /\ cache = probe.before
    /\ (probe # None /\ probe.op = "get_mut") =>
          /\ probe.before[probe.id] = None => probe.res = DefaultSection(probe.id)
          /\ probe.before[probe.id] # None => probe.res = probe.before[probe.id]
          /\ CacheGet(cache, probe.id) =
                IF probe.insert
                THEN WithEntries(probe.res, probe.id,
                                 MapInsert(Entries(probe.res, probe.id), probe.key, probe.ref))
                ELSE probe.res
          /\ \A other \in CachingProviders \ {probe.id} : cache[other] = probe.before[other]

\* get_mut default-constructed the http section, nothing was inserted, and
\* the modio section had entries
C18_Witness ==
    /\ probe # None
    /\ probe.op = "get_mut"
    /\ probe.id = "http"
    /\ probe.before["http"] = None
    /\ ~probe.insert
    /\ CacheGet(cache, "http") = DefaultSection("http")
    /\ cache["modio"] # None
    /\ DOMAIN cache["modio"].modfile_blobs # {}

(***************************************************************************)
(* The file provider.  A url is a path, written as the sequence of its     *)
(* components; "." and ".." are the current and the parent directory.  A   *)
(* path that names a regular file ends in a normal component (the system   *)
(* refuses "file/." and "file/.."); a path that names a directory may end  *)
(* in anything.                                                            *)
(***************************************************************************)
MaxPath == 3

Components == {"mods", "mod.zip", ".", ".."}

LocalPaths == UNION {[1..n -> Components] : n \in 0..MaxPath}

\* what a path may name on disk
PathKinds(path) ==
    IF path # << >> /\ path[Len(path)] \notin {".", ".."} THEN {"file", "dir"} ELSE {"dir"}

FileNameFirst(path) ==
    IF path = << >> THEN None ELSE [kind |-> "Some", name |-> path[1]]

\* Path::file_name: the last component when it is a normal one, "." being
\* skipped; none when the path ends in ".." or has no component
RECURSIVE FileName(_)
FileName(path) ==
    IF path = << >> THEN None
    ELSE IF path[Len(path)] = "." THEN FileName(SubSeq(path, 1, Len(path) - 1))
    ELSE IF path[Len(path)] = ".." THEN None
    ELSE [kind |-> "Some", name |-> path[Len(path)]]

\* FileProvider::resolve_mod
FileResolveMod(url) ==
    IF FileName(url) = None
    THEN [kind |-> "Err", err |-> [kind |-> "NoFileName", url |-> url]]
    ELSE [kind |-> "Resolve",
          info |-> [provider               |-> "file",
                    name                   |-> FileName(url).name,
                    spec                   |-> url,
                    versions               |-> <<url>>,
                    status                 |-> [kind |-> "Unresolvable",
                                                name |-> FileName(url).name],
                    suggested_require      |-> FALSE,
                    suggested_dependencies |-> << >>]]

\* FileProvider::fetch_mod
FileFetchMod(url) == Ok(LocalPath(url))

probeFrame == <<worldVars, storeVars, diskVars, fetchVars, blobVars, resolveVars,
                lockVars, refresh>>

\* resolve_mod of the file provider on a path that exists (can_provide)
CallFileResolve(url, kind) ==
    /\ kind \in PathKinds(url)
    /\ probe' = [op |-> "resolve_mod", url |-> url, names |-> kind, res |-> FileResolveMod(url)]
    /\ UNCHANGED probeFrame

\* fetch_mod of the file provider on a resolution of such a path
CallFileFetch(url, kind) ==
    /\ kind \in PathKinds(url)
    /\ probe' = [op |-> "fetch_mod", url |-> url, names |-> kind, res |-> FileFetchMod(url)]
    /\ UNCHANGED probeFrame

NextFile ==
    \/ \E url \in LocalPaths, kind \in {"file", "dir"} : CallFileResolve(url, kind)
    \/ \E url \in LocalPaths, kind \in {"file", "dir"} : CallFileFetch(url, kind)

SpecFile == InitCache /\ [][NextFile]_vars

(***************************************************************************)
(* C19: for a path that names an existing file, resolve_mod of the file    *)
(* provider answers Resolve (never Redirect, never an error) with a        *)
(* ModInfo of status Unresolvable whose name is the last component of the  *)
(* path and that suggests no dependency; fetch_mod returns the path of the *)
(* resolution; the blob directory and the cache document are as before.    *)
(***************************************************************************)
C19_FileIsTerminalAndLocal ==
    /\ (probe # None /\ probe.op = "resolve_mod" /\ probe.names = "file") =>
          /\ probe.res.kind = "Resolve"
          /\ probe.res.info.status.kind = "Unresolvable"
          /\ probe.res.info.name = probe.url[Len(probe.url)]
          /\ probe.res.info.status.name = probe.url[Len(probe.url)]
          /\ probe.res.info.suggested_dependencies = << >>
    /\ (probe # None /\ probe.op = "fetch_mod" /\ probe.names = "file") =>
          probe.res = [kind |-> "Ok", path |-> [dir |-> "local", name |-> probe.url]]
    /\ fs = EmptyDir
    /\ cache = [id \in CachingProviders |-> None]
    /\ \A c \in CallIds : calls[c].requests = 0

\* ./mods/mod.zip resolved to the name mod.zip
C19_Witness ==
    /\ probe # None
    /\ probe.op = "resolve_mod"
    /\ probe.names = "file"
    /\ probe.url = <<".", "mods", "mod.zip">>
    /\ probe.res.info.name = "mod.zip"

(***************************************************************************)
(* The synchronous lookups of ModStore: get_provider, then the provider's  *)
(* cache-only method.  A call returns a value or panics.  The provider     *)
(* methods read cache entries (mods, dependencies) that are no part of     *)
(* this model; where the answer depends on them it is any value of the     *)
(* return type.                                                            *)
(***************************************************************************)
Returned(v) == [kind |-> "Returned", value |-> v]

\* Result::unwrap on an Err
Panicked == [kind |-> "Panic"]

\* ModProvider::get_mod_info of provider f: "some" or "none"
ProviderModInfo(f, url) ==
    IF f = "modio" /\ CacheGet(cache, "modio") = None THEN {"none"} ELSE {"none", "some"}

\* ModProvider::is_pinned: file true; modio captures.name("modfile_id").is_some()
ProviderIsPinned(f, url) ==
    IF f = "file" THEN {TRUE}
    ELSE IF f = "modio" THEN {modfile[url] # 0}
    ELSE BOOLEAN

\* ModProvider::get_version_name: file Some("latest"); modio from the cached mod
ProviderVersionName(f, url) ==
    IF f = "file" THEN {"some"}
    ELSE IF f = "modio" /\ CacheGet(cache, "modio") = None THEN {"none"}
    ELSE {"none", "some"}

\* self.get_provider(&spec.url).ok()?.get_mod_info(spec, self.cache.clone())
GetModInfo(url) ==
    IF GetProvider(url).kind # "Ok" THEN {Returned("none")}
    ELSE {Returned(v) : v \in ProviderModInfo(GetProvider(url).factory, url)}

\* self.get_provider(&spec.url).unwrap().is_pinned(spec, self.cache.clone())
IsPinned(url) ==
    IF GetProvider(url).kind # "Ok" THEN {Panicked}
    ELSE {Returned(v) : v \in ProviderIsPinned(GetProvider(url).factory, url)}

\* self.get_provider(&spec.url).unwrap().get_version_name(spec, self.cache.clone())
GetVersionName(url) ==
    IF GetProvider(url).kind # "Ok" THEN {Panicked}
    ELSE {Returned(v) : v \in ProviderVersionName(GetProvider(url).factory, url)}

CallGetModInfo(url) ==
    \E r \in GetModInfo(url) :
        /\ probe' = [op |-> "get_mod_info", url |-> url, res |-> r]
        /\ UNCHANGED probeFrame

CallIsPinned(url) ==
    \E r \in IsPinned(url) :
        /\ probe' = [op |-> "is_pinned", url |-> url, res |-> r]
        /\ UNCHANGED probeFrame

CallGetVersionName(url) ==
    \E r \in GetVersionName(url) :
        /\ probe' = [op |-> "get_version_name", url |-> url, res |-> r]
        /\ UNCHANGED probeFrame

\* a store over any registry matches, with an empty or a used cache document
InitLookup ==
    /\ registry = <<"file", "http", "modio">>
    /\ matches \in [1..NUrls -> PossibleMatches]
    /\ modfile \in [1..NUrls -> {0, 1}]
    /\ resp = [l \in 1..NUrls |-> None]
    /\ remote = {}
    /\ providers \in {NewProviders(parameters) : parameters \in [FactoryIds -> SUBSET {"oauth"}]}
    /\ gp = None
    /\ cache \in {[id \in CachingProviders |-> None],
                  [id \in CachingProviders |-> DefaultSection(id)]}
    /\ fs = EmptyDir
    /\ IdleFetch
    /\ IdleBlob
    /\ IdleResolve
    /\ IdleOther

NextLookup ==
    \/ \E url \in DOMAIN matches : CallGetModInfo(url)
    \/ \E url \in DOMAIN matches : CallIsPinned(url)
    \/ \E url \in DOMAIN matches : CallGetVersionName(url)

SpecLookup == InitLookup /\ [][NextLookup]_vars

(***************************************************************************)
(* C20: get_mod_info, is_pinned and get_version_name return a value for    *)
(* every spec, without aborting; for a spec get_provider finds no provider *)
(* for, get_mod_info and get_version_name return none and is_pinned        *)
(* returns a boolean.                                                      *)
(***************************************************************************)
C20_LookupsAlwaysReturn ==
    probe # None =>
        /\ probe.res.kind = "Returned"
        /\ GetProvider(probe.url).kind # "Ok" =>
              /\ probe.op \in {"get_mod_info", "get_version_name"} => probe.res.value = "none"
              /\ probe.op = "is_pinned" => probe.res.value \in BOOLEAN

(***************************************************************************)
(* C21: during a round every spec of to_resolve is in exactly one place:   *)
(* still in the iterator, in the buffer, or resolved and collected, and it *)
(* is collected once; between two rounds nothing is in flight, so a round  *)
(* starts only after every resolution of the round before has completed.   *)
(***************************************************************************)
CollectedSpecs == {collected[i].u : i \in DOMAIN collected}

C21_OncePerRound ==
    /\ rpc = "round" =>
          /\ iter \cup DOMAIN inflight \cup CollectedSpecs = to_resolve
          /\ iter \cap DOMAIN inflight = {}
          /\ iter \cap CollectedSpecs = {}
          /\ DOMAIN inflight \cap CollectedSpecs = {}
          /\ Cardinality(CollectedSpecs) = Len(collected)
    /\ rpc = "loop" => iter = {} /\ DOMAIN inflight = {} /\ collected = << >>

\* the second round resolves, once, a spec that two mods of the first round
\* both suggested
C21_Witness ==
    /\ rpc = "round"
    /\ Cardinality(DOMAIN mods_map) = 2
    /\ \E d \in to_resolve :
          /\ to_resolve = {d}
          /\ \A k \in DOMAIN mods_map : mods_map[k].deps = {d}
          /\ CollectedSpecs = {d}

(***************************************************************************)
(* C22: when a round is over, the next pending set is exactly the          *)
(* suggested dependencies (of every ModInfo in the map) that are not in    *)
(* the precise set, the precise set holds the spec of every ModInfo in the *)
(* map, and the pending set holds no spec that has been resolved before,   *)
(* that is, no key of the map.                                             *)
(***************************************************************************)
C22_PendingIsNew ==
    (rpc = "loop" /\ DOMAIN mods_map # {}) =>
        /\ to_resolve = {d \in AllDeps(mods_map) : d \notin precise_mod_specs}
        /\ \A k \in DOMAIN mods_map : mods_map[k].spec \in precise_mod_specs
        /\ to_resolve \cap DOMAIN mods_map = {}

(***************************************************************************)
(* C23: in fetch_mods_ordered the fetch of position j is taken into the    *)
(* buffer only after the outputs of all positions up to j - Width have     *)
(* been yielded, however many of the fetches between have completed; in    *)
(* fetch_mods, whenever fewer than Width fetches are running and an input  *)
(* is left, the next thing the stream does is take that input.             *)
(***************************************************************************)
C23_WindowAdvancesByStartOrder ==
    \A c \in CallIds :
        calls[c].pc = "run" =>
            /\ calls[c].kind = "fetch_mods_ordered" =>
                  \A j \in DOMAIN calls[c].tasks :
                      calls[c].tasks[j].st # "new" =>
                          \A i \in 1..(j - Width) : calls[c].tasks[i].st = "emitted"
            /\ (/\ calls[c].kind = "fetch_mods"
                /\ TasksIn(calls[c], {"new"}) # {}
                /\ Cardinality(InFlight(calls[c])) < Width) =>
                  /\ ENABLED PushFetch(c)
                  /\ ~ENABLED (\E i \in DOMAIN matches : PollFetch(c, i) \/ CompleteFetch(c, i))

\* fetch_mods_ordered: positions 2 to Width have completed, position 1 is
\* still downloading, and position Width + 1 has not been started
C23_Witness ==
    \E c \in CallIds :
        /\ calls[c].pc = "run"
        /\ calls[c].kind = "fetch_mods_ordered"
        /\ Len(calls[c].mods) = Width + 1
        /\ calls[c].tasks[1].st = "net"
        /\ \A i \in 2..Width : calls[c].tasks[i].st = "ready"
        /\ calls[c].tasks[Width + 1].st = "new"
        /\ ~ENABLED PushFetch(c)

(***************************************************************************)
(* C24: whatever the interleaving of the fetches, a BlobRef that a section *)
(* of the provider cache holds names a blob in the store that is written   *)
(* completely: the file exists and holds the bytes of that digest.         *)
(***************************************************************************)
C24_RecordedBlobIsComplete ==
    CacheGet(cache, "http") # None =>
        \A url \in DOMAIN CacheGet(cache, "http").url_blobs :
            LET ref == CacheGet(cache, "http").url_blobs[url]
            IN  /\ GetPath(fs, ref) # None
                /\ Sha256Hex(fs.data[fs.dir[BlobName(ref)]]) = ref

(***************************************************************************)
(* C25: for an http fetch that waits for its response, an answer with an   *)
(* error status, or with a content-type header that is neither             *)
(* application/zip nor application/octet-stream, makes the fetch return an *)
(* error with the blob directory and the cache document as they were; an   *)
(* answer without a content-type header is accepted and its body stored.   *)
(* And in no step in which a fetch fails does either of the two change.    *)
(***************************************************************************)
C25_RejectedResponseLeavesNoTrace ==
    [][\A c \in CallIds :
          calls[c].pc = "run" =>
             /\ \A i \in TasksIn(calls[c], {"net"}) :
                   GetProvider(calls[c].mods[i]).factory = "http" =>
                      \A a \in remote :
                         LET r == FetchModFinish(calls[c].mods[i], a)
                         IN  /\ (a.status = "error"
                                   \/ (a.status = "ok" /\ a.ctype \notin
                                         {"none", "application/zip", "application/octet-stream"}))
                                => /\ r.item.kind = "Err"
                                   /\ r.fs = fs
                                   /\ r.cache = cache
                             /\ (a.status = "ok" /\ a.ctype = "none")
                                => /\ r.item = Ok(BlobPath(Sha256Hex(a.bytes)))
                                   /\ GetPath(r.fs, Sha256Hex(a.bytes)) # None
             /\ calls'[c].failed # calls[c].failed => fs' = fs /\ cache' = cache
    ]_vars

\* an http download was answered with a content type that is not accepted,
\* and the call has returned that error
C25_Witness ==
    \E c \in CallIds :
        /\ calls[c].pc = "done"
        /\ calls[c].res.kind = "Err"
        /\ calls[c].res.err.kind = "ContentType"
        /\ GetProvider(calls[c].res.err.url).factory = "http"
        /\ calls[c].requests >= 1

(***************************************************************************)
(* The mod.io backend.  A mod.io locator is what RE_MOD captures from it:  *)
(* the name id, and the mod id and modfile id where the url has them       *)
(* (0: the group did not take part).  format_spec and the format! calls    *)
(* of resolve_mod build a locator from the same three parts.  The server   *)
(* knows, per mod id, the mod's name id, its latest modfile (0: none) and  *)
(* its dependencies; the files of a mod are 1..latest.  The modio section  *)
(* of the cache document holds mod_id_map, mods and dependencies next to   *)
(* modfile_blobs.  A query is one of ModioMod::fetch, the dependency list  *)
(* or the search by name; any of them may fail.                            *)
(***************************************************************************)
MaxMod == 2        \* mod ids of the mod.io world

MaxFile == 1       \* modfile ids of a mod

MaxCalls == 2      \* calls of ModStore::resolve_mod in a behaviour

MaxEdits == 1      \* changes of the server's data in a behaviour

ModioNames == {"x", "y"}

ModioSpecs ==
    {[name_id |-> n, mod_id |-> m, modfile_id |-> f] :
        n \in ModioNames \cup {"FIXME"}, m \in 0..MaxMod, f \in 0..MaxFile}
      \ {[name_id |-> n, mod_id |-> 0, modfile_id |-> f] :
            n \in ModioNames \cup {"FIXME"}, f \in 1..MaxFile}

\* a format_spec that leaves the modfile id out
FormatSpecNoFile(name_id, mod_id, file_id) ==
    [name_id |-> name_id, mod_id |-> mod_id, modfile_id |-> 0]

\* format_spec(name_id, mod_id, file_id)
FormatSpec(name_id, mod_id, file_id) ==
    [name_id |-> name_id, mod_id |-> mod_id, modfile_id |-> file_id]

\* what the server holds for a mod
ServerMods ==
    {[name_id |-> n, latest_modfile |-> l, deps |-> d] :
        n \in ModioNames, l \in 0..MaxFile, d \in DepSets({1})}

\* ModioMod::new(mod_, files)
ModioModOf(rec) ==
    [name_id |-> rec.name_id, latest_modfile |-> rec.latest_modfile,
     modfiles |-> 1..rec.latest_modfile]

\* ModioCache::default()
ModioCacheDefault ==
    [mod_id_map |-> << >>, modfile_blobs |-> << >>, dependencies |-> << >>, mods |-> << >>]

\* lock.get_mut::<ModioCache>(MODIO_PROVIDER_ID)
ModioGetMut(doc) ==
    IF doc["modio"] = None THEN [doc EXCEPT !["modio"] = ModioCacheDefault] ELSE doc

\* c.mods.insert(mod_id, mod_.clone()); c.mod_id_map.insert(mod_.name_id, mod_id)
ModioInsertMod(doc, mod_id, mod_) ==
    [ModioGetMut(doc) EXCEPT !.modio.mods = MapInsert(@, mod_id, mod_),
                             !.modio.mod_id_map = MapInsert(@, mod_.name_id, mod_id)]

\* ...get_mut::<ModioCache>(..).dependencies.insert(mod_id, deps.clone())
ModioInsertDeps(doc, mod_id, deps) ==
    [ModioGetMut(doc) EXCEPT !.modio.dependencies = MapInsert(@, mod_id, deps)]

\* a lookup that reads the cache whatever update says
UseCachedAlways(update) == TRUE

\* (!update).then(|| ..) / if update { None } else { .. }
UseCached(update) == ~update

\* cache.read().unwrap().get::<ModioCache>(..).and_then(|c| c.mods.get(&mod_id).cloned())
CachedMod(doc, update, mod_id) ==
    IF ~UseCached(update) \/ CacheGet(doc, "modio") = None THEN None
    ELSE IF mod_id \notin DOMAIN CacheGet(doc, "modio").mods THEN None
    ELSE CacheGet(doc, "modio").mods[mod_id]

\* ... .and_then(|c| c.dependencies.get(&mod_id).cloned())
CachedDeps(doc, update, mod_id) ==
    IF ~UseCached(update) \/ CacheGet(doc, "modio") = None THEN None
    ELSE IF mod_id \notin DOMAIN CacheGet(doc, "modio").dependencies THEN None
    ELSE [kind |-> "Some", deps |-> CacheGet(doc, "modio").dependencies[mod_id]]

\* ... .and_then(|c| c.mod_id_map.get(name_id).cloned()), 0 for None
CachedId(doc, update, name_id) ==
    IF ~UseCached(update) \/ CacheGet(doc, "modio") = None THEN 0
    ELSE IF name_id \notin DOMAIN CacheGet(doc, "modio").mod_id_map THEN 0
    ELSE CacheGet(doc, "modio").mod_id_map[name_id]

\* the cached mod, or ModioMod::fetch(..).await? and the two inserts; query
\* number q is the fetch, and it fails when it is the one the network drops
\* or the server has no such mod
ModOrFetch(doc, update, server, mod_id, q, fail) ==
    LET c == CachedMod(doc, update, mod_id)
    IN  IF c # None THEN [ok |-> TRUE, mod |-> c, cache |-> doc, queries |-> q - 1]
        ELSE IF fail = q \/ server[mod_id] = None
             THEN [ok |-> FALSE, mod |-> None, cache |-> doc, queries |-> q]
             ELSE [ok |-> TRUE, mod |-> ModioModOf(server[mod_id]),
                   cache |-> ModioInsertMod(doc, mod_id, ModioModOf(server[mod_id])),
                   queries |-> q]

ModioErr(what, doc, queries) ==
    [res |-> [kind |-> "Err", err |-> what], cache |-> doc, queries |-> queries]

\* ModResponse::Redirect(spec)
ModioRedirect(spec, doc, queries) ==
    [res |-> [kind |-> "Redirect", spec |-> spec], cache |-> doc, queries |-> queries]

\* a resolution that names the mod the way ModInfo::spec does
ModioResolutionOfMod(url, mod_) == FormatSpecNoFile(mod_.name_id, url.mod_id, 0)

\* ResolvableStatus::Resolvable(ModResolution { url: url.to_owned() })
ModioResolution(url, mod_) == url

\* mod id and modfile id given: the mod and its dependencies, cached or
\* queried, and ModResponse::Resolve
ResolvePinned(url, update, doc, server, fail) ==
    LET m == ModOrFetch(doc, update, server, url.mod_id, 1, fail)
        c == CachedDeps(m.cache, update, url.mod_id)
        q == m.queries + 1
    IN  IF ~m.ok THEN ModioErr("fetch", m.cache, m.queries)
        ELSE IF c = None /\ (fail = q \/ server[url.mod_id] = None)
        THEN ModioErr("dependencies", m.cache, q)
        ELSE LET deps == IF c # None THEN c.deps ELSE server[url.mod_id].deps
             IN  [res |-> [kind |-> "Resolve",
                           info |-> [provider |-> "modio",
                                     spec |-> FormatSpec(m.mod.name_id, url.mod_id, 0),
                                     versions |-> {FormatSpec(m.mod.name_id, url.mod_id, f) :
                                                      f \in m.mod.modfiles},
                                     status |-> ModioResolution(url, m.mod),
                                     suggested_dependencies |->
                                         {FormatSpec("FIXME", d, 0) : d \in deps}]],
                  cache |-> IF c # None THEN m.cache
                            ELSE ModioInsertDeps(m.cache, url.mod_id, deps),
                  queries |-> IF c # None THEN m.queries ELSE q]

\* only the mod id given: redirect to the latest modfile of the mod
ResolveByModId(url, update, doc, server, fail) ==
    LET m == ModOrFetch(doc, update, server, url.mod_id, 1, fail)
    IN  IF ~m.ok THEN ModioErr("fetch", m.cache, m.queries)
        ELSE IF m.mod.latest_modfile = 0 THEN ModioErr("no modfile", m.cache, m.queries)
        ELSE ModioRedirect(FormatSpec(m.mod.name_id, url.mod_id, m.mod.latest_modfile),
                           m.cache, m.queries)

\* only the name given: the cached id and latest modfile, or the search by
\* name and the fetch of the mod it finds
ResolveByName(url, update, doc, server, fail) ==
    LET id    == CachedId(doc, update, url.name_id)
        found == {i \in DOMAIN server : server[i] # None /\ server[i].name_id = url.name_id}
    IN  IF id # 0
        THEN LET c == CachedMod(doc, update, id)
             IN  IF c # None /\ c.latest_modfile # 0
                 THEN ModioRedirect([name_id |-> url.name_id, mod_id |-> id,
                                     modfile_id |-> c.latest_modfile], doc, 0)
                 ELSE IF fail = 1 \/ server[id] = None THEN ModioErr("fetch", doc, 1)
                 ELSE LET mod_ == ModioModOf(server[id])
                          d    == ModioInsertMod(doc, id, mod_)
                      IN  IF mod_.latest_modfile = 0 THEN ModioErr("no modfile", d, 1)
                          ELSE ModioRedirect([name_id |-> url.name_id, mod_id |-> id,
                                              modfile_id |-> mod_.latest_modfile], d, 1)
        ELSE IF fail = 1 THEN ModioErr("search", doc, 1)
        ELSE IF Cardinality(found) > 1 THEN ModioErr("multiple mods", doc, 1)
        ELSE IF found = {} THEN ModioErr("no mods", doc, 1)
        ELSE LET mod_id == CHOOSE i \in found : TRUE
             IN  IF fail = 2 THEN ModioErr("fetch", doc, 2)
                 ELSE LET mod_ == ModioModOf(server[mod_id])
                          d    == ModioInsertMod(doc, mod_id, mod_)
                      IN  IF mod_.latest_modfile = 0 THEN ModioErr("no modfile", d, 2)
                          ELSE ModioRedirect([name_id |-> url.name_id, mod_id |-> mod_id,
                                              modfile_id |-> mod_.latest_modfile], d, 2)

\* ModioProvider::resolve_mod: the response, the cache document it leaves
\* and the number of queries it sent
ModioResolveMod(url, update, doc, server, fail) ==
    IF url.mod_id # 0 /\ url.modfile_id # 0 THEN ResolvePinned(url, update, doc, server, fail)
    ELSE IF url.mod_id # 0 THEN ResolveByModId(url, update, doc, server, fail)
    ELSE ResolveByName(url, update, doc, server, fail)

\* ModioProvider::fetch_mod on a resolution: past the test of the captures,
\* or "download URL must be fully specified"
ModioFetchAccepts(url) == url.mod_id # 0 /\ url.modfile_id # 0

\* the cache answers every lookup resolve_mod makes for the spec
MetadataCached(doc, url) ==
    /\ CacheGet(doc, "modio") # None
    /\ LET sec == CacheGet(doc, "modio")
           id  == IF url.mod_id # 0 THEN url.mod_id
                  ELSE IF url.name_id \in DOMAIN sec.mod_id_map
                       THEN sec.mod_id_map[url.name_id] ELSE 0
       IN  /\ id \in DOMAIN sec.mods
           /\ sec.mods[id].latest_modfile # 0
           /\ id \in DOMAIN sec.dependencies

\* ModioProvider::get_mod_info: the ModInfo built from the cached mod and
\* dependency list of the mod id the url gives, or the name maps to
ModioGetModInfo(url, doc) ==
    LET mod_id == IF url.mod_id # 0 THEN url.mod_id ELSE CachedId(doc, FALSE, url.name_id)
        mod_   == IF mod_id = 0 THEN None ELSE CachedMod(doc, FALSE, mod_id)
        deps   == IF mod_id = 0 THEN None ELSE CachedDeps(doc, FALSE, mod_id)
    IN  IF mod_ = None \/ deps = None THEN None
        ELSE [provider |-> "modio",
              spec |-> FormatSpec(mod_.name_id, mod_id, 0),
              versions |-> {FormatSpec(mod_.name_id, mod_id, f) : f \in mod_.modfiles},
              status |-> url,
              suggested_dependencies |-> {FormatSpec("FIXME", d, 0) : d \in deps.deps}]

IdleModio == [pc |-> "idle", original |-> None, spec |-> None, update |-> FALSE,
              redirects |-> 0, queries |-> 0, cached |-> FALSE, res |-> None, calls |-> 0,
              asked |-> None, info |-> None]

modioFrame == <<registry, matches, resp, modfile, storeVars, fs, fetchVars, blobVars,
                resolveVars, lockVars, refresh>>

\* ModStore::resolve_mod(original_spec, update, ..) is called
CallModioResolve(url, update) ==
    /\ probe.pc # "run"
    /\ probe.calls < MaxCalls
    /\ probe' = [IdleModio EXCEPT !.pc = "run", !.original = url, !.spec = url,
                                  !.update = update, !.calls = probe.calls + 1,
                                  !.cached = MetadataCached(cache, url)]
    /\ UNCHANGED <<modioFrame, cache, remote>>

\* one turn of its loop: get_provider(&spec.url)?.resolve_mod(&spec, ..).await?
ModioTurn(fail) ==
    /\ probe.pc = "run"
    /\ LET p == GetProvider(probe.spec)
           r == ModioResolveMod(probe.spec, probe.update, cache, remote.mods, fail)
       IN  IF p.kind # "Ok"
           THEN /\ probe' = [probe EXCEPT !.pc = "done", !.res = [kind |-> "Err", err |-> p]]
                /\ cache' = cache
           ELSE /\ cache' = r.cache
                /\ probe' = IF r.res.kind = "Redirect"
                            THEN [probe EXCEPT !.spec = r.res.spec, !.redirects = @ + 1,
                                               !.queries = @ + r.queries]
                            ELSE [probe EXCEPT !.pc = "done", !.res = r.res,
                                               !.queries = @ + r.queries]
    /\ UNCHANGED <<modioFrame, remote>>

\* ModStore::get_mod_info(spec) after resolve_mod has returned, on the spec
\* the caller gave or on the one the resolution ended with
CallModioGetModInfo(url) ==
    /\ probe.pc = "done"
    /\ probe.asked = None
    /\ url \in {probe.original, probe.spec}
    /\ probe' = [probe EXCEPT !.asked = url,
                              !.info = IF GetProvider(url).kind # "Ok" THEN None
                                       ELSE ModioGetModInfo(url, cache)]
    /\ UNCHANGED <<modioFrame, cache, remote>>

\* the server's data about a mod changes between two calls (a change before
\* the first call is another initial state)
Republish(id, rec) ==
    /\ probe.pc = "done"
    /\ remote.edits < MaxEdits
    /\ remote.mods[id] # rec
    /\ remote' = [mods |-> [remote.mods EXCEPT ![id] = rec], edits |-> remote.edits + 1]
    /\ UNCHANGED <<modioFrame, cache, probe>>

\* a store with the modio provider over a fresh cache directory
InitModio ==
    /\ registry = <<"file", "http", "modio">>
    /\ matches = [s \in ModioSpecs |-> {"modio"}]
    /\ modfile = [s \in ModioSpecs |-> s.modfile_id]
    /\ resp = [s \in ModioSpecs |-> None]
    /\ remote \in {[mods |-> m, edits |-> 0] : m \in [1..MaxMod -> ServerMods \cup {None}]}
    /\ providers = NewProviders([f \in FactoryIds |-> {"oauth"}])
    /\ gp = None
    /\ NewStore
    /\ IdleFetch
    /\ IdleBlob
    /\ IdleResolve
    /\ IdleLock
    /\ IdleRefresh
    /\ probe = IdleModio

NextModio ==
    \/ \E url \in ModioSpecs, update \in BOOLEAN : CallModioResolve(url, update)
    \/ \E fail \in 0..2 : ModioTurn(fail)
    \/ \E id \in 1..MaxMod, rec \in ServerMods \cup {None} : Republish(id, rec)
    \/ \E url \in ModioSpecs : CallModioGetModInfo(url)

SpecModio == InitModio /\ [][NextModio]_vars


(***************************************************************************)
(* C26: the resolution of every ModInfo that resolve_mod of the mod.io     *)
(* provider produces, and so of every ModInfo the store returns for a      *)
(* mod.io spec, names a mod id and a modfile id, and fetch_mod does not    *)
(* reject it as not fully specified, whatever the form of the spec the     *)
(* caller gave.                                                            *)
(***************************************************************************)
C26_ResolutionIsPinned ==
    /\ probe.pc = "run" =>
          \A fail \in 0..2 :
             LET r == ModioResolveMod(probe.spec, probe.update, cache, remote.mods, fail).res
             IN  r.kind = "Resolve" =>
                    /\ ModioFetchAccepts(r.info.status)
                    /\ FetchModStart(r.info.status, probe.update)
                          # Ready(Err("NotFullySpecified", r.info.status))
    /\ (probe.pc = "done" /\ probe.res.kind = "Resolve") =>
          /\ probe.res.info.status.mod_id # 0
          /\ probe.res.info.status.modfile_id # 0
          /\ FetchModStart(probe.res.info.status, probe.update) = Pending

\* a spec that gives only a name came back with a resolution fetch_mod takes
C26_Witness ==
    /\ probe.pc = "done"
    /\ probe.original.mod_id = 0
    /\ probe.res.kind = "Resolve"
    /\ ModioFetchAccepts(probe.res.info.status)
    /\ FetchModStart(probe.res.info.status, probe.update) = Pending


(***************************************************************************)
(* C27: resolve_mod of the mod.io provider fails, resolves, or redirects   *)
(* to a spec with a mod id and a modfile id, which the mod.io provider     *)
(* owns and never redirects again; a call of ModStore::resolve_mod on a    *)
(* mod.io spec follows at most one redirect.                               *)
(***************************************************************************)
C27_AtMostOneRedirect ==
    /\ probe.redirects <= 1
    /\ probe.pc = "run" =>
          \A fail \in 0..2 :
             LET r == ModioResolveMod(probe.spec, probe.update, cache, remote.mods, fail)
             IN  /\ r.res.kind \in {"Err", "Resolve", "Redirect"}
                 /\ r.res.kind = "Redirect" =>
                       /\ r.res.spec.mod_id # 0
                       /\ r.res.spec.modfile_id # 0
                       /\ GetProvider(r.res.spec).factory = "modio"
                       /\ \A again \in 0..2 :
                             ModioResolveMod(r.res.spec, probe.update, r.cache, remote.mods,
                                             again).res.kind # "Redirect"

\* a spec with a mod id and no modfile id was redirected once and resolved
C27_Witness ==
    /\ probe.pc = "done"
    /\ probe.original.mod_id # 0
    /\ probe.original.modfile_id = 0
    /\ probe.redirects = 1
    /\ probe.res.kind = "Resolve"


(***************************************************************************)
(* C28: a call of resolve_mod with update = false on a mod.io spec whose   *)
(* name-to-id mapping, mod record with a latest modfile and dependency     *)
(* list are in the cache sends no query, whatever the server holds by      *)
(* then.  With update = true every turn sends at least one query, answers  *)
(* what it would answer over an empty cache, and a turn that does not fail *)
(* leaves the server's current record of the mod, its name-to-id mapping   *)
(* and (when it resolves) its dependency list in the cache.                *)
(***************************************************************************)
C28_CacheOrBackend ==
    /\ (probe.pc # "idle" /\ ~probe.update /\ probe.cached) => probe.queries = 0
    /\ (probe.pc = "run" /\ probe.update) =>
          \A fail \in 0..2 :
             LET r     == ModioResolveMod(probe.spec, TRUE, cache, remote.mods, fail)
                 fresh == ModioResolveMod(probe.spec, TRUE, [cache EXCEPT !["modio"] = None],
                                          remote.mods, fail)
                 id    == IF r.res.kind = "Redirect" THEN r.res.spec.mod_id
                          ELSE probe.spec.mod_id
                 sec   == CacheGet(r.cache, "modio")
             IN  /\ r.queries >= 1
                 /\ r.res = fresh.res
                 /\ r.queries = fresh.queries
                 /\ r.res.kind # "Err" =>
                       /\ sec.mods[id] = ModioModOf(remote.mods[id])
                       /\ sec.mod_id_map[remote.mods[id].name_id] = id
                       /\ r.res.kind = "Resolve" =>
                             sec.dependencies[id] = remote.mods[id].deps

\* a name that was cached resolved without a query although the server has
\* changed since, and a call with update = true replaced a stale record
C28_Witness ==
    \/ /\ probe.pc = "done"
       /\ ~probe.update
       /\ probe.cached
       /\ probe.original.mod_id = 0
       /\ probe.res.kind = "Resolve"
       /\ probe.queries = 0
       /\ remote.edits = 1
       /\ remote.mods[probe.spec.mod_id] = None
    \/ /\ probe.pc = "done"
       /\ probe.update
       /\ probe.res.kind = "Resolve"
       /\ probe.queries >= 2
       /\ remote.edits = 1
       /\ probe.calls = 2


(***************************************************************************)
(* The provider map.  ModStore::providers is a HashMap from descriptor id  *)
(* to provider: a set of <<id, instance>> entries here, an instance being  *)
(* the number of the construction that made it (0: made by ModStore::new). *)
(* The variable providers is the key set of that map.  Whether             *)
(* modio::Modio::new succeeds, whether the cache metadata can be read and  *)
(* whether check() succeeds are decided by the environment.                *)
(***************************************************************************)
MaxAdds == 2       \* calls of add_provider / add_provider_checked in a behaviour

\* a ModStore::new that asks every descriptor for a provider
EligibleAlways(f, params) == TRUE

\* f.parameters.iter().all(|p| params.contains_key(p.id))
Eligible(f, params) == RequiredParams(f) \subseteq params

\* (f.new)(&params): file and http return Ok; modio needs "oauth" and
\* modio::Modio::new(..)?
ConstructorResult(f, params, client_ok) ==
    IF f # "modio" THEN "Ok"
    ELSE IF "oauth" \notin params THEN "Err"
    ELSE IF client_ok THEN "Ok" ELSE "Err"

\* provider.check().await: file returns Ok(()), modio searches the server
CheckResult(f, check_ok) == IF f = "file" \/ check_ok THEN "Ok" ELSE "Err"

\* an insert that drops the entries of the other keys
HashMapInsertAlone(m, k, v) == {<<k, v>>}

\* an insert that leaves the entries of the key in place
HashMapInsertBeside(m, k, v) == m \cup {<<k, v>>}

\* HashMap::insert(k, v)
HashMapInsert(m, k, v) == {e \in m : e[1] # k} \cup {<<k, v>>}

Keys(m) == {e[1] : e \in m}

\* ModStore::new up to the provider map: the providers it collects, or the
\* first constructor error; then read_cache_metadata_or_default(..)?
NewModStore(parameters, client_ok, cache_ok) ==
    LET asked == {f \in Range(registry) : Eligible(f, parameters[f])}
    IN  IF \E f \in asked : ConstructorResult(f, parameters[f], client_ok) = "Err"
        THEN [res |-> "Err", stored |-> {}]
        ELSE IF ~cache_ok THEN [res |-> "Err", stored |-> {}]
        ELSE [res |-> "Ok", stored |-> {<<f, 0>> : f \in asked}]

\* missed and added are history: the descriptors get_provider has answered
\* NoProvider for, and those of them add_provider has since stored
NoStore == [created |-> FALSE, stored |-> {}, made |-> 0, done |-> 0, pending |-> None,
            op |-> "none", f |-> "none", args |-> None, res |-> "none",
            missed |-> {}, added |-> {}]

storeFrame == <<worldVars, gp, diskVars, fetchVars, blobVars, resolveVars, lockVars, refresh>>

\* ModStore::new(cache_path, parameters)
CallNew(parameters, client_ok, cache_ok) ==
    /\ ~probe.created
    /\ LET r == NewModStore(parameters, client_ok, cache_ok)
       IN  /\ probe' = [NoStore EXCEPT !.created = r.res = "Ok", !.stored = r.stored,
                                       !.op = "new", !.res = r.res,
                                       !.args = [parameters |-> parameters,
                                                 client_ok |-> client_ok,
                                                 cache_ok |-> cache_ok]]
           /\ providers' = Keys(r.stored)
    /\ UNCHANGED storeFrame

\* ModStore::add_provider(provider_factory, parameters)
CallAddProvider(f, params, client_ok) ==
    /\ probe.created
    /\ probe.done < MaxAdds
    /\ LET ok     == ConstructorResult(f, params, client_ok) = "Ok"
           stored == IF ok THEN HashMapInsert(probe.stored, f, probe.made + 1)
                     ELSE probe.stored
       IN  /\ probe' = [probe EXCEPT !.stored = stored, !.done = @ + 1,
                                     !.made = IF ok THEN @ + 1 ELSE @,
                                     !.op = "add_provider", !.f = f, !.args = None,
                                     !.res = IF ok THEN "Ok" ELSE "Err",
                                     !.added = IF ok /\ f \in probe.missed
                                               THEN @ \cup {f} ELSE @]
           /\ providers' = Keys(stored)
    /\ UNCHANGED storeFrame

\* ModStore::add_provider_checked up to provider.check().await
BeginAddProviderChecked(f, params, client_ok) ==
    /\ probe.created
    /\ probe.pending = None
    /\ probe.done < MaxAdds
    /\ probe' = IF ConstructorResult(f, params, client_ok) = "Ok"
                THEN [probe EXCEPT !.made = @ + 1,
                                   !.pending = [f |-> f, provider |-> probe.made + 1]]
                ELSE [probe EXCEPT !.done = @ + 1, !.op = "add_provider_checked", !.f = f,
                                   !.args = None, !.res = "Err"]
    /\ UNCHANGED <<storeFrame, providers>>

\* ... and from the result of check() to its return
FinishAddProviderChecked(check_ok) ==
    /\ probe.pending # None
    /\ LET f      == probe.pending.f
           ok     == CheckResult(f, check_ok) = "Ok"
           stored == IF ok THEN HashMapInsert(probe.stored, f, probe.pending.provider)
                     ELSE probe.stored
       IN  /\ probe' = [probe EXCEPT !.stored = stored, !.done = @ + 1, !.pending = None,
                                     !.op = "add_provider_checked", !.f = f,
                                     !.args = None, !.res = IF ok THEN "Ok" ELSE "Err"]
           /\ providers' = Keys(stored)
    /\ UNCHANGED storeFrame

\* get_provider on the store that was created (one locator: the answer for
\* a locator does not depend on the other locators)
LookupInStore(url) ==
    /\ probe.created
    /\ gp' = [url |-> url, res |-> GetProvider(url), had |-> providers]
    /\ probe' = IF GetProvider(url).kind = "NoProvider"
                THEN [probe EXCEPT !.missed = @ \cup {GetProvider(url).factory}]
                ELSE probe
    /\ UNCHANGED <<worldVars, providers, diskVars, fetchVars, blobVars, resolveVars,
                   lockVars, refresh>>

InitStore ==
    /\ registry \in Perms(FactoryIds)
    /\ matches \in [{1} -> PossibleMatches]
    /\ resp = [l \in {1} |-> None]
    /\ modfile = [l \in {1} |-> 0]
    /\ remote = {}
    /\ providers = {}
    /\ gp = None
    /\ NewStore
    /\ IdleFetch
    /\ IdleBlob
    /\ IdleResolve
    /\ IdleLock
    /\ IdleRefresh
    /\ probe = NoStore

NextStore ==
    \/ \E parameters \in [FactoryIds -> SUBSET {"oauth"}], client_ok, cache_ok \in BOOLEAN :
          CallNew(parameters, client_ok, cache_ok)
    \/ \E f \in FactoryIds, params \in SUBSET {"oauth"}, client_ok \in BOOLEAN :
          CallAddProvider(f, params, client_ok)
    \/ \E f \in FactoryIds, params \in SUBSET {"oauth"}, client_ok \in BOOLEAN :
          BeginAddProviderChecked(f, params, client_ok)
    \/ \E check_ok \in BOOLEAN : FinishAddProviderChecked(check_ok)
    \/ \E url \in DOMAIN matches : LookupInStore(url)

SpecStore == InitStore /\ [][NextStore]_vars

(***************************************************************************)
(* C29: a ModStore::new that succeeds holds a provider for exactly the     *)
(* descriptors whose required parameters are all among the parameters      *)
(* given for their id; a descriptor with a missing required parameter      *)
(* causes no error, and get_provider answers NoProvider for a locator it   *)
(* owns; a constructor that fails although its parameters are all there    *)
(* makes ModStore::new fail.                                               *)
(***************************************************************************)
C29_NewBuildsEligibleProviders ==
    probe.op = "new" =>
       LET parameters == probe.args.parameters
           complete   == {f \in FactoryIds : RequiredParams(f) \subseteq parameters[f]}
           failing    == {f \in complete :
                             ConstructorResult(f, parameters[f], probe.args.client_ok) = "Err"}
       IN  /\ probe.res = "Ok" =>
                 /\ probe.created
                 /\ providers = complete
                 /\ \A e \in probe.stored : e[2] = 0
                 /\ \A url \in DOMAIN matches :
                       LET hits == {i \in DOMAIN registry : registry[i] \in matches[url]}
                       IN  (hits # {} /\ registry[Min(hits)] \notin complete) =>
                              GetProvider(url).kind = "NoProvider"
           /\ failing # {} => probe.res = "Err" /\ ~probe.created /\ providers = {}
           /\ (failing = {} /\ probe.args.cache_ok) => probe.res = "Ok"

\* a store was created without the modio provider, whose token was missing,
\* and a locator modio owns finds no provider
C29_Witness ==
    /\ probe.op = "new"
    /\ probe.res = "Ok"
    /\ "oauth" \notin probe.args.parameters["modio"]
    /\ providers = {"file", "http"}
    /\ gp # None
    /\ gp.res.kind = "NoProvider"
    /\ gp.res.factory = "modio"


(***************************************************************************)
(* C30: a call of add_provider or add_provider_checked that returns an     *)
(* error, because the constructor or check() failed, leaves the provider   *)
(* map as it was; one that succeeds stores the provider it constructed     *)
(* under the descriptor's id in place of the entry the id had, and leaves  *)
(* the other entries alone.  The map never holds two providers for one id, *)
(* and the steps before check() returns do not change it.                  *)
(***************************************************************************)
C30_MapChangesOnlyOnSuccess ==
    [][/\ \A a, b \in probe'.stored : a[1] = b[1] => a = b
       /\ (probe'.pending # None /\ probe.pending = None) =>
             probe'.stored = probe.stored /\ providers' = providers
       /\ (probe'.done # probe.done /\ probe'.res = "Err") =>
             probe'.stored = probe.stored /\ providers' = providers
       /\ (probe'.done # probe.done /\ probe'.res = "Ok") =>
             /\ \E e \in probe'.stored :
                   /\ e[1] = probe'.f
                   /\ e \notin probe.stored
                   /\ e[2] >= 1
             /\ {e \in probe'.stored : e[1] # probe'.f}
                   = {e \in probe.stored : e[1] # probe'.f}
             /\ providers' = providers \cup {probe'.f}
      ]_vars

\* after two calls the file provider constructed last has taken the place
\* of the one ModStore::new had made, and the provider constructed before
\* it is not in the map
C30_Witness ==
    /\ probe.op = "add_provider"
    /\ probe.res = "Ok"
    /\ probe.f = "file"
    /\ probe.pending = None
    /\ probe.made = 2
    /\ probe.done = 2
    /\ "modio" \notin providers
    /\ <<"file", 2>> \in probe.stored
    /\ <<"file", 0>> \notin probe.stored
    /\ \A e \in probe.stored : e[2] # 1


(***************************************************************************)
(* C31: once get_provider has answered NoProvider with descriptor d and a  *)
(* later add_provider(d, ..) has succeeded, d keeps a provider whatever    *)
(* the store does afterwards, and get_provider succeeds for every locator  *)
(* whose first matching descriptor is d.                                   *)
(***************************************************************************)
C31_AddedProviderStays ==
    /\ probe.added \subseteq providers
    /\ \A url \in DOMAIN matches :
          LET hits == {i \in DOMAIN registry : registry[i] \in matches[url]}
          IN  (hits # {} /\ registry[Min(hits)] \in probe.added) =>
                 /\ GetProvider(url).kind = "Ok"
                 /\ GetProvider(url).factory = registry[Min(hits)]

\* modio had no provider, add_provider(modio) succeeded, another provider
\* was added after it, and get_provider now finds the modio provider
C31_Witness ==
    /\ "modio" \in probe.missed
    /\ "modio" \in probe.added
    /\ probe.done = 2
    /\ probe.f # "modio"
    /\ probe.res = "Ok"
    /\ gp.res.kind = "Ok"
    /\ gp.res.factory = "modio"


(***************************************************************************)
(* C32: the resolution of every ModInfo that get_mod_info of the mod.io    *)
(* provider returns names a mod id and a modfile id, so that fetch_mod     *)
(* does not reject it as not fully specified, also for a spec that gives   *)
(* only the name or only the mod id.                                       *)
(***************************************************************************)
C32_InfoResolutionIsPinned ==
    (probe.asked # None /\ probe.info # None) =>
        /\ ModioFetchAccepts(probe.info.status)
        /\ FetchModStart(probe.info.status, FALSE)
              # Ready(Err("NotFullySpecified", probe.info.status))


(***************************************************************************)
(* The save-slot detours of the game hook (src/hook/src/lib.rs), a Windows *)
(* library.  A slot name is a string cut at its separators into parts; a   *)
(* part is a name ("" between two separators or before a leading one),    *)
(* with or without a drive letter and colon before it.  get_path_for_slot  *)
(* appends ".sav" to the string, that is to its last part.  The saves      *)
(* directory, once set, is one fixed absolute path; a path is the saves    *)
(* directory or the current directory of a drive, and the components       *)
(* below it.                                                               *)
(***************************************************************************)
MaxSlot == 2       \* parts of a slot name

MaxSaves == 1      \* files the save detour has written in a behaviour

SlotNames == {"", ".", "..", "a", "Player"}

SlotParts == [drive : BOOLEAN, name : SlotNames]

Slots == UNION {[1..n -> SlotParts] : n \in 1..MaxSlot}

\* slot_name.to_os_string().to_string_lossy() == "Player"
IsPlayer(slot) == slot = <<[drive |-> FALSE, name |-> "Player"]>>

\* Path::components of the slot name with ".sav" appended, the Normal ones:
\* the drive of the first part is a Prefix component of its own; "", "."
\* and ".." are not Normal unless ".sav" follows them; a drive in a later
\* part is text of a Normal component
NormalComponents(slot) ==
    LET comp(i) == [drive |-> slot[i].drive /\ i > 1, name |-> slot[i].name,
                    sav |-> i = Len(slot)]
        normal(i) == comp(i).sav \/ comp(i).drive \/ comp(i).name \notin {"", ".", ".."}
        idx == SelectSeq([i \in 1..Len(slot) |-> i], normal)
    IN  [k \in 1..Len(idx) |-> comp(idx[k])]

\* PathBuf::push(c): a path that has a prefix replaces the buffer, any
\* other Normal component is appended
Push(buf, c) ==
    IF c.drive THEN [base |-> "drive", comps |-> <<[c EXCEPT !.drive = FALSE]>>]
    ELSE [buf EXCEPT !.comps = Append(@, c)]

RECURSIVE PushAll(_, _)
PushAll(buf, comps) ==
    IF comps = << >> THEN buf ELSE PushAll(Push(buf, Head(comps)), Tail(comps))

\* get_path_for_slot: None while SAVES_DIR is not set
GetPathForSlot(saves_dir, slot) ==
    IF ~saves_dir THEN None
    ELSE [kind |-> "Some",
          path |-> PushAll([base |-> "saves", comps |-> << >>], NormalComponents(slot))]

IdleHook(saves_dir) ==
    [saves_dir |-> saves_dir, files |-> {}, op |-> "none", slot |-> << >>,
     original |-> FALSE, path |-> None, res |-> "none"]

\* save_game_to_slot_detour
SaveGameToSlotDetour(slot, memory_ok, write_ok) ==
    LET p == GetPathForSlot(probe.saves_dir, slot)
    IN  /\ Cardinality(probe.files) < MaxSaves
        /\ probe' =
              IF IsPlayer(slot)
              THEN [probe EXCEPT !.op = "save", !.slot = slot, !.original = TRUE,
                                 !.path = None, !.res = "original"]
              ELSE IF ~memory_ok \/ p = None
              THEN [probe EXCEPT !.op = "save", !.slot = slot, !.original = FALSE,
                                 !.path = IF memory_ok THEN p ELSE None, !.res = "false"]
              ELSE [probe EXCEPT !.op = "save", !.slot = slot, !.original = FALSE,
                                 !.path = p,
                                 !.files = IF write_ok THEN @ \cup {p.path} ELSE @,
                                 !.res = IF write_ok THEN "true" ELSE "false"]
        /\ UNCHANGED probeFrame

\* load_game_from_slot_detour
LoadGameFromSlotDetour(slot) ==
    LET p == GetPathForSlot(probe.saves_dir, slot)
    IN  /\ probe' =
              IF IsPlayer(slot)
              THEN [probe EXCEPT !.op = "load", !.slot = slot, !.original = TRUE,
                                 !.path = None, !.res = "original"]
              ELSE [probe EXCEPT !.op = "load", !.slot = slot, !.original = FALSE,
                                 !.path = p,
                                 !.res = IF p # None /\ p.path \in probe.files
                                         THEN "loaded" ELSE "null"]
        /\ UNCHANGED probeFrame

\* does_save_game_exist_detour
DoesSaveGameExistDetour(slot) ==
    LET p == GetPathForSlot(probe.saves_dir, slot)
    IN  /\ probe' =
              IF IsPlayer(slot)
              THEN [probe EXCEPT !.op = "exists", !.slot = slot, !.original = TRUE,
                                 !.path = None, !.res = "original"]
              ELSE [probe EXCEPT !.op = "exists", !.slot = slot, !.original = FALSE,
                                 !.path = p,
                                 !.res = IF p # None /\ p.path \in probe.files
                                         THEN "true" ELSE "false"]
        /\ UNCHANGED probeFrame

\* the hook after init, with or without a saves directory
InitHook ==
    /\ registry = <<"file", "http", "modio">>
    /\ providers = FactoryIds
    /\ matches = [l \in 1..NUrls |-> {}]
    /\ resp = [l \in 1..NUrls |-> None]
    /\ modfile = [l \in 1..NUrls |-> 0]
    /\ remote = {}
    /\ gp = None
    /\ NewStore
    /\ IdleFetch
    /\ IdleBlob
    /\ IdleResolve
    /\ IdleLock
    /\ IdleRefresh
    /\ probe \in {IdleHook(d) : d \in BOOLEAN}

NextHook ==
    \/ \E slot \in Slots, memory_ok, write_ok \in BOOLEAN :
          SaveGameToSlotDetour(slot, memory_ok, write_ok)
    \/ \E slot \in Slots : LoadGameFromSlotDetour(slot)
    \/ \E slot \in Slots : DoesSaveGameExistDetour(slot)

SpecHook == InitHook /\ [][NextHook]_vars

(***************************************************************************)
(* C33: for a slot other than "Player" the three detours work on the path  *)
(* get_path_for_slot gives for it, which lies below the saves directory    *)
(* whatever "..", root or drive prefix the slot name contains; the slot    *)
(* "Player" goes to the original game function.                            *)
(***************************************************************************)
C33_SlotPathStaysInSavesDir ==
    probe.op # "none" =>
       /\ probe.original = IsPlayer(probe.slot)
       /\ probe.original => probe.path = None
       /\ probe.path # None =>
             /\ probe.path = GetPathForSlot(probe.saves_dir, probe.slot)
             /\ probe.path.path.base = "saves"
             /\ \A i \in DOMAIN probe.path.path.comps :
                   probe.path.path.comps[i].sav
                      \/ probe.path.path.comps[i].name \notin {"", ".", ".."}
       /\ \A p \in probe.files : p.base = "saves"

============================================================================
